---- MODULE Spec2Model ----
(***************************************************************************)
(* Transactional change tracking of pentaho.type: ComplexChangeset and     *)
(* ListChangeset (pentaho/type/action).                                    *)
(*                                                                         *)
(* One complex value "root" with element properties p (complex valued),    *)
(* q (simple valued) and ro (read-only); complex elements with one element *)
(* property x; one list "list" of those elements.  Changesets live in an   *)
(* arena indexed by <<transaction, target>>; slot ComposeTxn holds the     *)
(* read-only results of compose.  The controls that util.localizeDomCtrl   *)
(* (common-ui/util/util) localizes are kept by id in store.dom.            *)
(***************************************************************************)
EXTENDS Integers, Sequences, FiniteSets, TLC

VARIABLES store, txn, cs, last

vars == <<store, txn, cs, last>>

PROP_VALUE_DEFAULT == 0
PROP_VALUE_SPECIFIED == 1

\* ---------------------------------------------------------------- bounds
MaxVersion == 2
MaxChanges == 2
MaxLen == 3
MaxEdits == 4
MaxStem == 7

\* ---------------------------------------------------------------- universe
Null == "null"
ROOT == "root"
LIST == "list"
Elems == {"a", "b", "c"}
TxnIds == {1, 2, 3}
SimpleValues == {"v1", "v1b", "v2"}
Targets == {ROOT, LIST} \cup Elems
ComplexTargets == {ROOT} \cup Elems
PropNames == {"p", "q", "ro", "x"}
ComposeTxn == Cardinality(TxnIds) + 1
NoId == <<0, "none">>
CsIds == (1..ComposeTxn) \X Targets

\* The key of a value: "v1b" is an instance distinct from, and equal to, "v1",
\* and "a2" is another instance of the element "a".
KeyOf(v) == IF v = "v1b" THEN "v1" ELSE IF v = "a2" THEN "a" ELSE v

\* type.areEqual: equality of values by the property's equality semantics.
areEqual(v1, v2) == KeyOf(v1) = KeyOf(v2)

PropsOf(target) == IF target = ROOT THEN {"p", "q", "ro"} ELSE {"x"}

isReadOnlyProp(name) == name = "ro"

\* The default value of a property: that of the complex-valued p is given
\* by the type (store.pDefault), an element or nothing.
DefaultValue(name) ==
  IF name \in {"q", "ro"} THEN "v1"
  ELSE IF name = "p" THEN store.pDefault ELSE Null

\* propType.toValueOn: casts the specification; a nully one gives the default.
toValueOn(name, valueNewSpec) ==
  IF valueNewSpec = Null THEN DefaultValue(name) ELSE valueNewSpec

SpecsOf(name) ==
  IF name = "p" THEN {Null} \cup Elems ELSE {Null} \cup SimpleValues

isComplexValue(v) == v \in Elems

\* ---------------------------------------------------------------- records
NoEntry ==
  [kind |-> "none", value |-> Null, state |-> 0, valueOld |-> Null,
   tv |-> 0, id |-> NoId]

\* new Replace(propType, value, state, valueOld)
Replace(value, state, valueOld) ==
  [kind |-> "replace", value |-> value, state |-> state,
   valueOld |-> valueOld, tv |-> 0, id |-> NoId]

Nested(id) == [NoEntry EXCEPT !.kind = "cset", !.id = id]

NoCs ==
  [exists |-> FALSE, kind |-> "none", target |-> "none", txn |-> 0,
   targetVersion |-> 0, txnVersion |-> 0, netOrder |-> 0,
   readOnly |-> FALSE, status |-> "open",
   changes |-> [n \in PropNames |-> NoEntry],
   prims |-> <<>>, byKey |-> [e \in Elems |-> NoId],
   lastClearIndex |-> -1, projMock |-> FALSE, mockCount |-> 0,
   mockElems |-> <<>>, mockKeys |-> {}]

KindOf(target) == IF target = LIST THEN "list" ELSE "complex"

\* ---------------------------------------------------------------- helpers
Max(a, b) == IF a >= b THEN a ELSE b
Min(a, b) == IF a <= b THEN a ELSE b

SeqToSet(s) == {s[i] : i \in 1..Len(s)}

Containers == {ROOT, LIST}

\* The work state of an operation: the changeset arena, the transaction's
\* ChangeRef records (net count of references an element gained from each
\* container) and the transaction's version counter.
Work == [cs |-> cs, crefs |-> txn.crefs, version |-> txn.version]

NoRefs == [e \in Elems |-> [c \in Containers |-> 0]]

CurId(target) == <<txn.id, target>>

\* target.__cset / target.$changeset: the ambient changeset of a container.
csetOf(w, target) ==
  IF txn.open /\ w.cs[CurId(target)].exists THEN CurId(target) ELSE NoId

\* The committed references of an element: one per container holding it.
CommittedRefs(e, c) ==
  IF c = ROOT
  THEN (IF store.vals[ROOT]["p"] = e THEN 1 ELSE 0)
  ELSE Cardinality({i \in 1..Len(store.elems) : store.elems[i] = e})

\* Transaction#getAmbientReferences: the containers that reference an
\* element, as projected by the transaction's ChangeRef records.
AmbientRefs(w, e) ==
  {c \in Containers : CommittedRefs(e, c) + w.crefs[e][c] > 0}

\* ChangeRef#addReference / ChangeRef#removeReference
addReference(w, e, container) ==
  [w EXCEPT !.crefs[e][container] = @ + 1]

removeReference(w, e, container) ==
  [w EXCEPT !.crefs[e][container] = @ - 1]

\* Transaction#__takeNextVersion
takeNextVersion(w) == [w EXCEPT !.version = @ + 1]

\* Changeset#_setTransactionVersion: raises the version, never lowers it.
setTransactionVersion(w, id, v) ==
  [w EXCEPT !.cs[id].txnVersion = Max(@, v)]

\* Changeset#_setTransactionVersionLocal
setTransactionVersionLocal(w, id, v) ==
  [w EXCEPT !.cs[id].txnVersion = v]

\* Changeset#__updateNetOrder: raises the topological order to at least n.
\* Element changesets hold no nested changesets, so nothing propagates.
updateNetOrder(w, id, n) ==
  [w EXCEPT !.cs[id].netOrder = Max(@, n)]

\* Changeset#_resetNetOrder: recomputes the order from the ambient parents.
resetNetOrder(w, id) ==
  LET parents == {c \in AmbientRefs(w, id[2]) : w.cs[<<id[1], c>>].exists}
  IN [w EXCEPT !.cs[id].netOrder =
        IF parents = {} THEN 0
        ELSE 1 + w.cs[<<id[1], CHOOSE c \in parents :
               \A d \in parents :
                 w.cs[<<id[1], d>>].netOrder <= w.cs[<<id[1], c>>].netOrder>>].netOrder]

\* __hasChanges(change) and Changeset#hasChanges, complex and list.
RECURSIVE csHasChanges(_, _)
entryHasChanges_any(C, entry) == TRUE

entryHasChanges(C, entry) ==
  entry.kind # "cset" \/ csHasChanges(C, entry.id)

csHasChanges(C, id) ==
  IF C[id].kind = "list"
  THEN \/ Len(C[id].prims) > 0
       \/ \E k \in Elems : C[id].byKey[k] # NoId /\ csHasChanges(C, C[id].byKey[k])
  ELSE \E name \in PropNames :
         /\ C[id].changes[name].kind # "none"
         /\ entryHasChanges(C, C[id].changes[name])

\* ComplexChangeset#__getChange
getChange(C, id, name) == C[id].changes[name]

\* ComplexChangeset#__hasChange
hasChange(C, id, name) ==
  C[id].changes[name].kind # "none" /\ entryHasChanges(C, C[id].changes[name])

\* ComplexChangeset#__getByName and #__getStateByName: the pending view of
\* a property. A nested changeset gives its target and counts as specifying
\* the value; a Replace gives its value and state; else the target is asked.
getByName(C, id, name) ==
  IF getChange(C, id, name).kind = "cset"
  THEN C[getChange(C, id, name).id].target
  ELSE IF getChange(C, id, name).kind = "replace"
  THEN getChange(C, id, name).value
  ELSE store.vals[C[id].target][name]

getStateByName(C, id, name) ==
  IF getChange(C, id, name).kind = "cset" THEN PROP_VALUE_SPECIFIED
  ELSE IF getChange(C, id, name).kind = "replace"
  THEN getChange(C, id, name).state
  ELSE store.sts[C[id].target][name]

\* ---------------------------------------------------------------- ComplexChangeset
\* ComplexChangeset#__addComplexElement: skipped on a read-only changeset.
complexAddComplexElement(w, id, element) ==
  IF w.cs[id].readOnly THEN w
  ELSE LET w1 == addReference(w, element, id[2])
           child == csetOf(w1, element)
       IN IF child # NoId
          THEN updateNetOrder(w1, child, w1.cs[id].netOrder + 1)
          ELSE w1

\* ComplexChangeset#__removeComplexElement: skipped on a read-only changeset.
complexRemoveComplexElement(w, id, element) ==
  IF w.cs[id].readOnly THEN w
  ELSE LET w1 == removeReference(w, element, id[2])
           child == csetOf(w1, element)
       IN IF child # NoId THEN resetNetOrder(w1, child) ELSE w1

\* Replace#_prepare: the old value loses, the new value gains, a reference.
replacePrepare(w, id, change) ==
  LET w1 == IF isComplexValue(change.valueOld)
            THEN complexRemoveComplexElement(w, id, change.valueOld) ELSE w
  IN IF isComplexValue(change.value)
     THEN complexAddComplexElement(w1, id, change.value) ELSE w1

\* Replace#_cancel: undoes _prepare.
replaceCancel(w, id, change) ==
  LET w1 == IF isComplexValue(change.value)
            THEN complexRemoveComplexElement(w, id, change.value) ELSE w
  IN IF isComplexValue(change.valueOld)
     THEN complexAddComplexElement(w1, id, change.valueOld) ELSE w1

\* Replace#__updateValue: swaps the value (and its reference), sets the state
\* and stamps the change with a fresh transaction version.
replaceUpdateValue(w, id, name, valueNew, stateNew) ==
  LET change == w.cs[id].changes[name]
      w1 == IF valueNew # change.value /\ isComplexValue(change.value)
            THEN complexRemoveComplexElement(w, id, change.value) ELSE w
      w2 == IF valueNew # change.value /\ isComplexValue(valueNew)
            THEN complexAddComplexElement(w1, id, valueNew) ELSE w1
      w3 == takeNextVersion(w2)
  IN [w3 EXCEPT !.cs[id].changes[name].value = valueNew,
                !.cs[id].changes[name].state = stateNew,
                !.cs[id].changes[name].tv = w3.version]

complexOnChildChangesetCreated_overwrites(w, id, child, name) ==
  updateNetOrder(
    setTransactionVersion([w EXCEPT !.cs[id].changes[name] = Nested(child)],
                          id, w.cs[child].txnVersion),
    child, w.cs[id].netOrder + 1)

\* ComplexChangeset#__onChildChangesetCreated
complexOnChildChangesetCreated(w, id, child, name) ==
  LET w1 == IF getChange(w.cs, id, name).kind = "none"
            THEN setTransactionVersion(
                   [w EXCEPT !.cs[id].changes[name] = Nested(child)],
                   id, w.cs[child].txnVersion)
            ELSE w
  IN updateNetOrder(w1, child, w1.cs[id].netOrder + 1)

\* ComplexChangeset#__setPrimitiveChange
setPrimitiveChange(w, id, name, change) ==
  LET w1 == [w EXCEPT !.cs[id].changes[name] = change]
      w2 == replacePrepare(w1, id, change)
      w3 == takeNextVersion(w2)
      w4 == [w3 EXCEPT !.cs[id].changes[name].tv = w3.version]
  IN setTransactionVersionLocal(w4, id, w3.version)

removePrimitiveChange_noVersion(w, id, name) ==
  [replaceCancel(w, id, w.cs[id].changes[name])
     EXCEPT !.cs[id].changes[name] = NoEntry]

\* ComplexChangeset#__removePrimitiveChange
removePrimitiveChange(w, id, name) ==
  LET w1 == replaceCancel(w, id, w.cs[id].changes[name])
      w2 == [w1 EXCEPT !.cs[id].changes[name] = NoEntry]
      w3 == takeNextVersion(w2)
  IN setTransactionVersionLocal(w3, id, w3.version)

\* ComplexChangeset#__updateReplaceChange
updateReplaceChange(w, id, name, valueNew, stateNew) ==
  LET w1 == replaceUpdateValue(w, id, name, valueNew, stateNew)
  IN setTransactionVersionLocal(w1, id, w1.cs[id].changes[name].tv)

\* ---------------------------------------------------------------- list data
\* Array#splice start normalisation: negative counts from the end.
spliceStart(len, start) ==
  IF start < 0 THEN Max(len + start, 0) ELSE Min(start, len)

\* s.splice(start, 0, x)
spliceInsert(s, start, x) ==
  LET k == spliceStart(Len(s), start)
  IN SubSeq(s, 1, k) \o <<x>> \o SubSeq(s, k + 1, Len(s))

\* s.splice(start, count)
spliceRemove(s, start, count) ==
  LET k == spliceStart(Len(s), start)
      n == Max(0, Min(count, Len(s) - k))
  IN SubSeq(s, 1, k) \o SubSeq(s, k + n + 1, Len(s))

\* s.indexOf(x), -1 when absent.
indexOf(s, x) ==
  IF \E i \in 1..Len(s) : s[i] = x
  THEN (CHOOSE i \in 1..Len(s) : s[i] = x /\ \A j \in 1..(i - 1) : s[j] # x) - 1
  ELSE -1

\* O.getOwn(keys, key): the element registered under a key, or Null.
getOwnKey(keys, key) ==
  IF \E e \in keys : KeyOf(e) = key
  THEN CHOOSE e \in keys : KeyOf(e) = key
  ELSE Null

\* The primitive changes of a list.
NoPrim ==
  [type |-> "none", elems |-> <<>>, index |-> 0, indexNew |-> 0,
   tv |-> 0, desc |-> FALSE]

Add(elem, index) == [NoPrim EXCEPT !.type = "add", !.elems = <<elem>>, !.index = index]

Remove(elems, index) == [NoPrim EXCEPT !.type = "remove", !.elems = elems, !.index = index]

Move(elem, indexOld, indexNew) ==
  [NoPrim EXCEPT !.type = "move", !.elems = <<elem>>, !.index = indexOld,
                 !.indexNew = indexNew]

Sort(comparer) == [NoPrim EXCEPT !.type = "sort", !.desc = comparer = "desc"]

\* The Clear of a list that held the elements.
Clear(elems) == [NoPrim EXCEPT !.type = "clear", !.elems = elems]

\* The element of a list with a key, as a sequence of one or none.
pickKey(elems, key) ==
  IF \E i \in 1..Len(elems) : KeyOf(elems[i]) = key
  THEN <<elems[CHOOSE i \in 1..Len(elems) : KeyOf(elems[i]) = key]>>
  ELSE <<>>

\* Array#sort with a comparer of the keys, ascending or descending.
sortElems(elems, desc) ==
  IF desc
  THEN pickKey(elems, "c") \o pickKey(elems, "b") \o pickKey(elems, "a")
  ELSE pickKey(elems, "a") \o pickKey(elems, "b") \o pickKey(elems, "c")

\* Add#_apply, Remove#_apply, Move#_apply, Clear#_apply on the element array
\* and the key map of a list or list mock.
primApplyElems(prim, elems) ==
  CASE prim.type = "add" -> spliceInsert(elems, prim.index, prim.elems[1])
    [] prim.type = "remove" -> spliceRemove(elems, prim.index, Len(prim.elems))
    [] prim.type = "move" ->
         IF spliceStart(Len(elems), prim.index) < Len(elems)
         THEN spliceInsert(spliceRemove(elems, prim.index, 1), prim.indexNew,
                           elems[spliceStart(Len(elems), prim.index) + 1])
         ELSE elems
    [] prim.type = "clear" -> <<>>
    [] prim.type = "sort" -> sortElems(elems, prim.desc)
    [] OTHER -> elems

primApplyKeys(prim, keys) ==
  CASE prim.type = "add" ->
         {e \in keys : KeyOf(e) # KeyOf(prim.elems[1])} \cup {prim.elems[1]}
    [] prim.type = "remove" ->
         {e \in keys : \A i \in 1..Len(prim.elems) : KeyOf(e) # KeyOf(prim.elems[i])}
    [] prim.type = "clear" -> {}
    [] OTHER -> keys

\* The committed list, as a list view.
targetList == [elems |-> store.elems, keys |-> store.keys]

\* ListChangeset#__applyFrom
RECURSIVE applyPrims(_, _, _)
applyPrims(prims, k, list) ==
  IF k > Len(prims) THEN list
  ELSE applyPrims(prims, k + 1,
         [elems |-> primApplyElems(prims[k], list.elems),
          keys |-> primApplyKeys(prims[k], list.keys)])

applyFrom_fromLastClear(c, list, startingFromIdx) ==
  applyPrims(c.prims, Max(c.lastClearIndex, 0) + 1, list)

applyFrom(c, list, startingFromIdx) ==
  applyPrims(c.prims, Max(c.lastClearIndex, startingFromIdx) + 1, list)

refreshMock_keepsCount(c) ==
  IF Len(c.prims) = 0 THEN c
  ELSE LET mock == IF c.projMock
                   THEN [elems |-> c.mockElems, keys |-> c.mockKeys]
                   ELSE targetList
           count == IF c.projMock THEN c.mockCount ELSE 0
           fresh == IF count < Len(c.prims) THEN applyFrom(c, mock, count) ELSE mock
       IN [c EXCEPT !.projMock = TRUE, !.mockCount = count,
                    !.mockElems = fresh.elems, !.mockKeys = fresh.keys]

\* ListChangeset#__projectedMock: the getter refreshes the cached mock ...
refreshMock(c) ==
  IF Len(c.prims) = 0 THEN c
  ELSE LET mock == IF c.projMock
                   THEN [elems |-> c.mockElems, keys |-> c.mockKeys]
                   ELSE targetList
           count == IF c.projMock THEN c.mockCount ELSE 0
           fresh == IF count < Len(c.prims) THEN applyFrom(c, mock, count) ELSE mock
       IN [c EXCEPT !.projMock = TRUE, !.mockCount = Max(count, Len(c.prims)),
                    !.mockElems = fresh.elems, !.mockKeys = fresh.keys]

\* ... and returns the target when there are no changes, else the mock.
mockView(c) == [elems |-> c.mockElems, keys |-> c.mockKeys]

projectedMock(c) ==
  IF Len(c.prims) = 0 THEN targetList ELSE mockView(refreshMock(c))

\* ListChangeset#__addComplexElement: the reference first, then the child
\* changeset of the element, if it has one.
listAddChild(w, id, key) ==
  IF csetOf(w, key) = NoId THEN w
  ELSE IF w.cs[id].readOnly
  THEN [w EXCEPT !.cs[id].byKey[key] = csetOf(w, key)]
  ELSE updateNetOrder([w EXCEPT !.cs[id].byKey[key] = csetOf(w, key)],
                      csetOf(w, key), w.cs[id].netOrder + 1)

listAddComplexElement_alwaysTracks(w, id, element) ==
  listAddChild(addReference(w, KeyOf(element), id[2]), id, KeyOf(element))

listAddComplexElement(w, id, element) ==
  listAddChild(
    IF ~w.cs[id].readOnly THEN addReference(w, KeyOf(element), id[2]) ELSE w,
    id, KeyOf(element))

\* ListChangeset#__removeComplexElement
listRemoveChild(w, id, key) ==
  IF csetOf(w, key) = NoId THEN w
  ELSE IF w.cs[id].readOnly
  THEN [w EXCEPT !.cs[id].byKey[key] = NoId]
  ELSE resetNetOrder([w EXCEPT !.cs[id].byKey[key] = NoId], csetOf(w, key))

listRemoveComplexElement(w, id, element) ==
  listRemoveChild(
    IF ~w.cs[id].readOnly THEN removeReference(w, KeyOf(element), id[2]) ELSE w,
    id, KeyOf(element))

\* Add#_prepare, Remove#_prepare: the elements gain or lose the reference of
\* the list; a Move changes no reference.
RECURSIVE removeEach(_, _, _, _)
removeEach(w, id, elems, k) ==
  IF k > Len(elems) THEN w
  ELSE removeEach(listRemoveComplexElement(w, id, elems[k]), id, elems, k + 1)

primPrepare(w, id, prim) ==
  CASE prim.type = "add" -> listAddComplexElement(w, id, prim.elems[1])
    [] prim.type = "remove" -> removeEach(w, id, prim.elems, 1)
    [] prim.type = "clear" -> removeEach(w, id, prim.elems, 1)
    [] OTHER -> w

\* ListChangeset#__addChange: push and prepare the change, then stamp it and
\* the changeset with the version taken.
stampChange(w, id) ==
  setTransactionVersionLocal(
    [w EXCEPT !.cs[id].prims[Len(w.cs[id].prims)].tv = w.version],
    id, w.version)

addChange(w, id, change) ==
  stampChange(
    takeNextVersion(
      primPrepare([w EXCEPT !.cs[id].prims = Append(@, change)], id, change)),
    id)

\* ---------------------------------------------------------------- ListChangeset.__set
\* Changeset#_assertWritable: applied, cancelled and read-only changesets fail.
isWritable(c) == ~c.readOnly /\ c.status = "open"

\* The insertion index, clamped to the list (unspecified: the end).
setIndex(index, len) ==
  IF index = <<>> THEN len
  ELSE IF index[1] < 0 THEN Max(0, len + index[1]) ELSE Min(index[1], len)

\* I - Pre-process setElems: classifies each element of the fragment by key.
\* setKeys: 0 not in the fragment, 1 existing, 2 existing and updated,
\* 3 added. Elements that are neither existing nor added are dropped.
RECURSIVE setPreProcess(_, _, _, _, _, _)
setPreProcess(fragment, k, acc, keys, add, update) ==
  IF k > Len(fragment) THEN acc
  ELSE LET elem == fragment[k]
           key == KeyOf(elem)
           existing == getOwnKey(keys, key)
       IN IF elem = Null
          THEN setPreProcess(fragment, k + 1,
                 [acc EXCEPT !.setElems = Append(@, elem)], keys, add, update)
          ELSE IF existing # Null
          THEN setPreProcess(fragment, k + 1,
                 [acc EXCEPT !.setElems = Append(@, elem),
                             !.setKeys[key] = IF update /\ existing # elem THEN 2 ELSE 1],
                 keys, add, update)
          ELSE IF add /\ acc.setKeys[key] = 0
          THEN setPreProcess(fragment, k + 1,
                 [acc EXCEPT !.setElems = Append(@, elem), !.setKeys[key] = 3,
                             !.newElements = Append(@, elem)],
                 keys, add, update)
          ELSE setPreProcess(fragment, k + 1, acc, keys, add, update)

\* Not present anymore, or is to be replaced by the new one.
isToRemove(setKeys, key) == setKeys[key] \in {0, 4}

removeIndex_uncorrected(i, removeCount) == i

\* The index of a Remove, corrected for the removes before it.
removeIndex(i, removeCount) == i - removeCount

\* II - Process removes and build the computed array: one Remove for each
\* element that is not in the fragment.
RECURSIVE setProcessRemoves(_, _, _, _)
setProcessRemoves(S, i, elems, remove) ==
  IF i >= Len(elems) \/ S.err # "none" THEN S
  ELSE LET elem == elems[i + 1]
           key == KeyOf(elem)
       IN IF isToRemove(S.setKeys, key)
          THEN IF remove
               THEN IF store.listReadOnly
                    THEN [S EXCEPT !.err = "TypeError"]
                    ELSE setProcessRemoves(
                           [S EXCEPT !.index = IF i < S.index THEN @ - 1 ELSE @,
                                     !.w = addChange(S.w, S.id,
                                             Remove(<<elem>>, removeIndex(i, S.removeCount))),
                                     !.removeCount = @ + 1],
                           i + 1, elems, remove)
               ELSE setProcessRemoves([S EXCEPT !.computed = Append(@, key)],
                                      i + 1, elems, remove)
          ELSE setProcessRemoves(
                 [S EXCEPT !.baseIndex = IF S.baseSet THEN @
                                        ELSE removeIndex(i, S.removeCount),
                           !.baseSet = TRUE,
                           !.computed = Append(@, key)],
                 i + 1, elems, remove)

\* III - Process adds: one Add for each new element.
RECURSIVE setProcessAdds(_, _)
setProcessAdds(S, i) ==
  IF i >= Len(S.newElements) \/ S.err # "none" THEN S
  ELSE LET value == S.newElements[i + 1]
           newIndex == S.index + i
       IN IF store.listReadOnly \/ store.needReadOnlyElementValidation
          THEN [S EXCEPT !.err = "TypeError"]
          ELSE setProcessAdds(
                 [S EXCEPT !.w = addChange(S.w, S.id, Add(value, newIndex)),
                           !.computed = spliceInsert(@, newIndex, KeyOf(value))],
                 i + 1)

needsMove_orEqual(baseSet, currentIndex, baseIndex, i, lastDestinationIndex) ==
  \/ baseSet /\ currentIndex < baseIndex + i
  \/ currentIndex <= lastDestinationIndex

\* Is the element before the place its rank in the fragment asks for, or
\* before the destination of the previous element?
needsMove(baseSet, currentIndex, baseIndex, i, lastDestinationIndex) ==
  \/ baseSet /\ currentIndex < baseIndex + i
  \/ currentIndex < lastDestinationIndex

moveDestination_rankOnly(baseIndex, i, lastDestinationIndex) == baseIndex + i

\* The smallest index that restores the order.
moveDestination(baseIndex, i, lastDestinationIndex) ==
  Max(baseIndex + i, lastDestinationIndex)

\* IV - Process moves: a left-to-right scan of the fragment.
RECURSIVE setProcessMoves(_, _)
setProcessMoves(S, i) ==
  IF i >= Len(S.setElems) \/ S.err # "none" THEN S
  ELSE LET elem == S.setElems[i + 1]
           currentIndex == indexOf(S.computed, KeyOf(elem))
           baseIndex == IF S.baseSet /\ currentIndex < S.baseIndex
                        THEN S.baseIndex - 1 ELSE S.baseIndex
           destinationIndex == moveDestination(baseIndex, i, S.lastDestinationIndex)
       IN IF elem = Null THEN setProcessMoves(S, i + 1)
          ELSE IF needsMove(S.baseSet, currentIndex, baseIndex, i,
                            S.lastDestinationIndex)
          THEN IF store.listReadOnly
               THEN [S EXCEPT !.err = "TypeError"]
               ELSE setProcessMoves(
                      [S EXCEPT !.baseIndex = baseIndex,
                                !.w = addChange(S.w, S.id,
                                        Move(elem, currentIndex, destinationIndex)),
                                !.computed = spliceInsert(
                                   spliceRemove(@, currentIndex, 1),
                                   destinationIndex, KeyOf(elem)),
                                !.lastDestinationIndex = destinationIndex],
                      i + 1)
          ELSE setProcessMoves(
                 [S EXCEPT !.baseIndex = baseIndex,
                           !.lastDestinationIndex = currentIndex],
                 i + 1)

\* ListChangeset#__set
\* The scan state of __set after the pre-processing of the fragment.
setStart(w, id, pre, index) ==
  [w |-> w, id |-> id, err |-> "none",
   setElems |-> pre.setElems, setKeys |-> pre.setKeys,
   newElements |-> pre.newElements, index |-> index,
   computed |-> <<>>, baseIndex |-> 0, baseSet |-> FALSE,
   removeCount |-> 0, lastDestinationIndex |-> 0]

\* No element of the fragment is in the list: new ones go at the index.
setBase(S) ==
  IF ~S.baseSet /\ Len(S.newElements) > 0
  THEN [S EXCEPT !.baseIndex = S.index, !.baseSet = TRUE] ELSE S

setResult(S) ==
  [w |-> S.w, outcome |-> IF S.err = "none" THEN "ok" ELSE S.err]

setAdds(S, add) == IF add THEN setProcessAdds(S, 0) ELSE S

setMoves_always(S, move) == setProcessMoves(S, 0)

setMoves(S, move) == IF move THEN setProcessMoves(S, 0) ELSE S

\* The four phases of __set over the projected list.
setPhases(w, id, list, fragment, add, update, remove, move, index) ==
  setResult(
    setMoves(
      setAdds(
        setBase(
          setProcessRemoves(
            setStart(w, id,
              setPreProcess(fragment, 1,
                [setElems |-> <<>>, setKeys |-> [e \in Elems |-> 0],
                 newElements |-> <<>>],
                list.keys, add, update),
              setIndex(index, Len(list.elems))),
            0, list.elems, remove)),
        add),
      move))

listSet(w, id, fragment, add, update, remove, move, index) ==
  IF ~isWritable(w.cs[id]) THEN [w |-> w, outcome |-> "InvalidOperation"]
  ELSE setPhases([w EXCEPT !.cs[id] = refreshMock(@)], id,
                 projectedMock(w.cs[id]),
                 fragment, add, update, remove, move, index)

\* ---------------------------------------------------------------- other list operations
\* The call returns, or throws before returning.
opOk(w) == [w |-> w, outcome |-> "ok"]

opFail(w, err) == [w |-> w, outcome |-> err]

\* The __projectedMock getter leaves the refreshed mock in the changeset.
withMock(w, id) == [w EXCEPT !.cs[id] = refreshMock(@)]

\* List#get, List#indexOf and List#count read the projected content.
listGet(w, id, key) == getOwnKey(projectedMock(w.cs[id]).keys, key)

listIndexOf(w, id, elem) == indexOf(projectedMock(w.cs[id]).elems, elem)

listCount(w, id) == Len(projectedMock(w.cs[id]).elems)

\* Array#slice(start, end): negative arguments count from the end.
slice(s, start, end) ==
  SubSeq(s, spliceStart(Len(s), start) + 1, spliceStart(Len(s), end))

\* ListChangeset#__remove, I - Pre-process removeElems: the elements of the
\* fragment whose key is in the list, once each, with elems.indexOf(elem).
RECURSIVE removePreProcess(_, _, _, _, _)
removePreProcess(fragment, k, infos, removeKeys, list) ==
  IF k > Len(fragment) THEN infos
  ELSE IF /\ fragment[k] # Null
          /\ KeyOf(fragment[k]) \notin removeKeys
          /\ getOwnKey(list.keys, KeyOf(fragment[k])) # Null
  THEN removePreProcess(fragment, k + 1,
         Append(infos, [value |-> fragment[k],
                        from |-> indexOf(list.elems, fragment[k])]),
         removeKeys \cup {KeyOf(fragment[k])}, list)
  ELSE removePreProcess(fragment, k + 1, infos, removeKeys, list)

\* II - Order descending so indexes keep valid (a stable sort).
firstMax(infos) ==
  CHOOSE i \in 1..Len(infos) :
    /\ \A j \in 1..Len(infos) : infos[j].from <= infos[i].from
    /\ \A j \in 1..(i - 1) : infos[j].from < infos[i].from

RECURSIVE sortDescending(_)
sortDescending(infos) ==
  IF Len(infos) = 0 THEN <<>>
  ELSE <<infos[firstMax(infos)]>> \o
       sortDescending(SubSeq(infos, 1, firstMax(infos) - 1) \o
                      SubSeq(infos, firstMax(infos) + 1, Len(infos)))

\* End the existing batch, if any.
endBatch(w, id, batchElems, batchIndex) ==
  IF Len(batchElems) > 0 THEN addChange(w, id, Remove(batchElems, batchIndex))
  ELSE w

\* III - Process the removes: 1 Remove per contiguous group.
RECURSIVE removeBatches(_, _, _, _, _, _)
removeBatches(w, id, infos, i, batchElems, batchIndex) ==
  IF i > Len(infos) THEN endBatch(w, id, batchElems, batchIndex)
  ELSE IF Len(batchElems) = 0 \/ infos[i].from # batchIndex - 1
  THEN removeBatches(endBatch(w, id, batchElems, batchIndex), id, infos, i + 1,
                     <<infos[i].value>>, infos[i].from)
  ELSE removeBatches(w, id, infos, i + 1,
                     <<infos[i].value>> \o batchElems, infos[i].from)

removeInfos_unchecked(w, id, infos) ==
  IF Len(infos) = 0 THEN opOk(w)
  ELSE opOk(removeBatches(w, id, sortDescending(infos), 1, <<>>, 0))

removeInfos(w, id, infos) ==
  IF Len(infos) = 0 THEN opOk(w)
  ELSE IF store.listReadOnly THEN opFail(w, "TypeError")
  ELSE opOk(removeBatches(w, id, sortDescending(infos), 1, <<>>, 0))

\* ListChangeset#__remove
listRemove(w, id, fragment) ==
  IF ~isWritable(w.cs[id]) THEN opFail(w, "InvalidOperation")
  ELSE removeInfos(withMock(w, id), id,
         removePreProcess(fragment, 1, <<>>, {}, projectedMock(w.cs[id])))

\* The start of __removeAt: negative counts from the end.
removeAtStart_unclamped(start, L) == IF start < 0 THEN L + start ELSE start

removeAtStart(start, L) == IF start < 0 THEN Max(0, L + start) ELSE start

removeAtIn(w, id, elems, start, count) ==
  IF start >= Len(elems) THEN opOk(w)
  ELSE IF store.listReadOnly THEN opFail(w, "TypeError")
  ELSE opOk(addChange(w, id,
         Remove(slice(elems, removeAtStart(start, Len(elems)),
                      removeAtStart(start, Len(elems)) + count),
                removeAtStart(start, Len(elems)))))

\* ListChangeset#__removeAt: count is <<>> when not given.
listRemoveAt(w, id, start, count) ==
  IF ~isWritable(w.cs[id]) THEN opFail(w, "InvalidOperation")
  ELSE IF count # <<>> /\ count[1] < 0 THEN opOk(w)
  ELSE removeAtIn(withMock(w, id), id, projectedMock(w.cs[id]).elems, start,
                  IF count = <<>> THEN 1 ELSE count[1])

\* The index a Move asks for, clamped to the list.
moveIndexNew_noFloor(indexNew, L) ==
  IF indexNew < 0 THEN L + indexNew ELSE Min(indexNew, L)

moveIndexNew(indexNew, L) ==
  IF indexNew < 0 THEN Max(0, L + indexNew) ELSE Min(indexNew, L)

moveTo(w, id, elem, indexOld, indexNew) ==
  IF indexOld = indexNew THEN opOk(w)
  ELSE IF store.listReadOnly THEN opFail(w, "TypeError")
  ELSE opOk(addChange(w, id, Move(elem, indexOld, indexNew)))

\* ListChangeset#__move
listMove(w, id, elem, indexNew) ==
  IF ~isWritable(w.cs[id]) THEN opFail(w, "InvalidOperation")
  ELSE IF listGet(w, id, KeyOf(elem)) = Null THEN opOk(withMock(w, id))
  ELSE moveTo(withMock(w, id), id, elem,
              listIndexOf(w, id, listGet(w, id, KeyOf(elem))),
              moveIndexNew(indexNew, listCount(w, id)))

listSort_unguarded(w, id, comparer) ==
  IF store.listReadOnly THEN opFail(w, "TypeError")
  ELSE opOk(addChange(w, id, Sort(comparer)))

\* ListChangeset#__sort
listSort(w, id, comparer) ==
  IF ~isWritable(w.cs[id]) THEN opFail(w, "InvalidOperation")
  ELSE IF store.listReadOnly THEN opFail(w, "TypeError")
  ELSE opOk(addChange(w, id, Sort(comparer)))

listClear_indexAfter(w, id) ==
  IF ~isWritable(w.cs[id]) THEN opFail(w, "InvalidOperation")
  ELSE IF listCount(w, id) = 0 THEN opOk(withMock(w, id))
  ELSE IF store.listReadOnly THEN opFail(withMock(w, id), "TypeError")
  ELSE opOk([addChange(withMock(w, id), id, Clear(projectedMock(w.cs[id]).elems))
               EXCEPT !.cs[id].lastClearIndex = Len(w.cs[id].prims) + 1])

\* ListChangeset#__clear: the position of the Clear is recorded before it is
\* appended.
listClear(w, id) ==
  IF ~isWritable(w.cs[id]) THEN opFail(w, "InvalidOperation")
  ELSE IF listCount(w, id) = 0 THEN opOk(withMock(w, id))
  ELSE IF store.listReadOnly THEN opFail(withMock(w, id), "TypeError")
  ELSE opOk(addChange(
         [withMock(w, id) EXCEPT !.cs[id].lastClearIndex = Len(w.cs[id].prims)],
         id, Clear(projectedMock(w.cs[id]).elems)))

\* ---------------------------------------------------------------- Transaction
\* ListChangeset#__onChildChangesetCreated
listOnChildChangesetCreated(w, id, child) ==
  LET w1 == [w EXCEPT !.cs[id].byKey[w.cs[child].target] = child]
      w2 == setTransactionVersion(w1, id, w1.cs[child].txnVersion)
  IN updateNetOrder(w2, child, w2.cs[id].netOrder + 1)

\* new Changeset(transaction, target): opened at the target's version and
\* at the transaction's latest version.
createChangeset(w, target) ==
  IF w.cs[CurId(target)].exists THEN w
  ELSE [w EXCEPT !.cs[CurId(target)] =
          [NoCs EXCEPT !.exists = TRUE, !.kind = KindOf(target),
                       !.target = target, !.txn = txn.id,
                       !.targetVersion = store.version[target],
                       !.txnVersion = w.version]]

\* Transaction#ensureChangeset: returns the changeset of the target, creating
\* it when absent; a new changeset is hooked into the changeset of every
\* container that ambiently references its target.
ensureChangeset(w, target) ==
  IF w.cs[CurId(target)].exists THEN w
  ELSE LET w1 == createChangeset(w, target)
           refs == IF target \in Elems THEN AmbientRefs(w, target) ELSE {}
           w2 == IF ROOT \in refs
                 THEN complexOnChildChangesetCreated(
                        createChangeset(w1, ROOT), CurId(ROOT), CurId(target), "p")
                 ELSE w1
       IN IF LIST \in refs
          THEN listOnChildChangesetCreated(
                 createChangeset(w2, LIST), CurId(LIST), CurId(target))
          ELSE w2

\* ---------------------------------------------------------------- setProperty
\* ComplexChangeset.__setElement, step by step.
\* The Replace that gives the ambient value, if any (a nested changeset
\* does not count).
ambientReplace(w, complex, name) ==
  LET changeset == csetOf(w, complex)
  IN IF changeset # NoId /\ getChange(w.cs, changeset, name).kind = "replace"
     THEN getChange(w.cs, changeset, name)
     ELSE NoEntry

valueAmbient(w, complex, name) ==
  LET replaceChange == ambientReplace(w, complex, name)
  IN IF replaceChange.kind = "replace" THEN replaceChange.value
     ELSE store.vals[complex][name]

stateAmbient(w, complex, name) ==
  LET replaceChange == ambientReplace(w, complex, name)
  IN IF replaceChange.kind = "replace" THEN replaceChange.state
     ELSE store.sts[complex][name]

stateOfSpec(valueNewSpec) ==
  IF valueNewSpec = Null THEN PROP_VALUE_DEFAULT ELSE PROP_VALUE_SPECIFIED

isEqualToAmbient_ignoreForce(w, complex, name, valueNewSpec, forceReplace) ==
  areEqual(toValueOn(name, valueNewSpec), valueAmbient(w, complex, name))

isEqualToAmbient(w, complex, name, valueNewSpec, forceReplace) ==
  IF forceReplace THEN FALSE
  ELSE areEqual(toValueOn(name, valueNewSpec), valueAmbient(w, complex, name))

isNoopSet_vsInitial(w, complex, name, valueNewSpec, forceReplace) ==
  /\ stateOfSpec(valueNewSpec) = store.sts[complex][name]
  /\ ~forceReplace
  /\ areEqual(toValueOn(name, valueNewSpec), store.vals[complex][name])

\* Doesn't change the ambient value/state?
isNoopSet(w, complex, name, valueNewSpec, forceReplace) ==
  /\ stateOfSpec(valueNewSpec) = stateAmbient(w, complex, name)
  /\ isEqualToAmbient(w, complex, name, valueNewSpec, forceReplace)

isRevertToInitial_identity(complex, name, valueNewSpec) ==
  /\ stateOfSpec(valueNewSpec) = store.sts[complex][name]
  /\ toValueOn(name, valueNewSpec) = store.vals[complex][name]

\* Goes back to the initial value/state?
isRevertToInitial(complex, name, valueNewSpec) ==
  /\ stateOfSpec(valueNewSpec) = store.sts[complex][name]
  /\ areEqual(toValueOn(name, valueNewSpec), store.vals[complex][name])

valueToRecord_alwaysNew(w, complex, name, valueNewSpec, forceReplace) ==
  toValueOn(name, valueNewSpec)

\* The value recorded: the original instance is preserved when unchanged.
valueToRecord(w, complex, name, valueNewSpec, forceReplace) ==
  IF isEqualToAmbient(w, complex, name, valueNewSpec, forceReplace)
  THEN valueAmbient(w, complex, name)
  ELSE toValueOn(name, valueNewSpec)

setElement(w, complex, name, valueNewSpec, forceReplace) ==
  IF isNoopSet(w, complex, name, valueNewSpec, forceReplace)
  THEN [w |-> w, outcome |-> "noop"]
  ELSE IF isReadOnlyProp(name)
  THEN [w |-> w, outcome |-> "TypeError"]
  ELSE IF ambientReplace(w, complex, name).kind = "replace"
  THEN IF isRevertToInitial(complex, name, valueNewSpec)
       THEN [w |-> removePrimitiveChange(w, csetOf(w, complex), name),
             outcome |-> "removed"]
       ELSE [w |-> updateReplaceChange(w, csetOf(w, complex), name,
                     valueToRecord(w, complex, name, valueNewSpec, forceReplace),
                     stateOfSpec(valueNewSpec)),
             outcome |-> "updated"]
  ELSE [w |-> setPrimitiveChange(ensureChangeset(w, complex), CurId(complex), name,
                Replace(valueToRecord(w, complex, name, valueNewSpec, forceReplace),
                        stateOfSpec(valueNewSpec), store.vals[complex][name])),
        outcome |-> "new"]

\* ---------------------------------------------------------------- commit
\* ComplexChangeset#_apply, with Replace#_apply: the values and the states
\* of the target after the changeset is applied.
complexApplyValues(C, id, vals) ==
  [name \in PropNames |->
     IF C[id].changes[name].kind = "replace"
     THEN C[id].changes[name].value ELSE vals[name]]

complexApplyStates_replaceOnly(C, id, states) ==
  [name \in PropNames |->
     IF C[id].changes[name].kind = "replace" THEN C[id].changes[name].state
     ELSE states[name]]

complexApplyStates(C, id, states) ==
  [name \in PropNames |->
     IF C[id].changes[name].kind = "replace" THEN C[id].changes[name].state
     ELSE IF C[id].changes[name].kind = "cset"
             /\ csHasChanges(C, C[id].changes[name].id)
     THEN PROP_VALUE_SPECIFIED
     ELSE states[name]]

\* ListChangeset#_apply on the changeset's own target: the projected mock,
\* brought up to date, gives the content; else the changes are replayed.
listApply(c, list) ==
  IF c.projMock THEN projectedMock(c) ELSE applyFrom(c, list, 0)

\* ---------------------------------------------------------------- compose
\* transaction.version of the transaction a changeset belongs to.
versionOf(w, t) == IF t = txn.id THEN w.version ELSE txn.closed[t]

\* changeset instanceof ComplexChangeset / ListChangeset; NoId stands for an
\* argument that is no changeset at all.
isInstanceOf(w, b, kind) ==
  b # NoId /\ w.cs[b].exists /\ w.cs[b].kind = kind

hasPreviousTargetVersion_orEqual(A, B) == B.targetVersion <= A.targetVersion

\* changeset.targetVersion < this.targetVersion
hasPreviousTargetVersion(A, B) == B.targetVersion < A.targetVersion

\* The argument checks of compose, in the order of the code.
isComposeInvalid(w, a, b) ==
  \/ ~isInstanceOf(w, b, w.cs[a].kind)
  \/ b = a
  \/ w.cs[b].target # w.cs[a].target
  \/ hasPreviousTargetVersion(w.cs[a], w.cs[b])

\* The slot of the changeset that compose creates for a target.
ResultId(target) == <<ComposeTxn, target>>

\* new Changeset(changeset.transaction, target), then __targetVersion and
\* __setReadOnlyInternal.
newResult(w, b) ==
  [NoCs EXCEPT !.exists = TRUE, !.kind = w.cs[b].kind,
               !.target = w.cs[b].target, !.txn = w.cs[b].txn,
               !.targetVersion = w.cs[b].targetVersion,
               !.txnVersion = versionOf(w, w.cs[b].txn),
               !.readOnly = TRUE]

PropSeq == <<"p", "q", "ro", "x">>
KeySeq == <<"a", "b", "c">>

ComposeThrows(w) == [w |-> w, outcome |-> "ArgumentInvalid", id |-> NoId]

\* ComplexChangeset#compose
RECURSIVE complexCompose(_, _, _)
RECURSIVE complexMerge(_, _, _, _)
\* Merge new changes in the result changeset, name by name.
complexMerge(S, b, r, k) ==
  IF k > Len(PropSeq) \/ S.err THEN S
  ELSE LET name == PropSeq[k]
           change == S.w.cs[b].changes[name]
           prevChange == S.w.cs[r].changes[name]
       IN IF change.kind = "none" THEN complexMerge(S, b, r, k + 1)
          ELSE IF prevChange.kind = "cset" /\ change.kind = "cset"
          THEN LET n == complexCompose(S.w, prevChange.id, change.id)
               IN IF n.outcome # "ok"
                  THEN [S EXCEPT !.err = TRUE]
                  ELSE complexMerge(
                         [S EXCEPT !.w = [n.w EXCEPT !.cs[r].changes[name] =
                                                       Nested(n.id)]],
                         b, r, k + 1)
          ELSE complexMerge([S EXCEPT !.w.cs[r].changes[name] = change],
                            b, r, k + 1)

complexCompose(w, a, b) ==
  IF isComposeInvalid(w, a, b) THEN ComposeThrows(w)
  ELSE LET r == ResultId(w.cs[b].target)
           w1 == [w EXCEPT !.cs[r] =
                    [newResult(w, b) EXCEPT !.changes = w.cs[a].changes]]
           S == complexMerge([w |-> w1, err |-> FALSE], b, r, 1)
       IN IF S.err THEN ComposeThrows(w)
          ELSE [w |-> S.w, outcome |-> "ok", id |-> r]

\* ListChangeset#compose: merge new child changesets in the result ...
RECURSIVE listMergeChildren(_, _, _, _)
listMergeChildren(S, b, r, k) ==
  IF k > Len(KeySeq) \/ S.err THEN S
  ELSE LET key == KeySeq[k]
           change == S.w.cs[b].byKey[key]
           previousChange == S.w.cs[r].byKey[key]
       IN IF change = NoId THEN listMergeChildren(S, b, r, k + 1)
          ELSE IF previousChange # NoId
          THEN LET n == complexCompose(S.w, previousChange, change)
               IN IF n.outcome # "ok"
                  THEN [S EXCEPT !.err = TRUE]
                  ELSE listMergeChildren(
                         [S EXCEPT !.w = [n.w EXCEPT !.cs[r].byKey[key] = n.id]],
                         b, r, k + 1)
          ELSE listMergeChildren([S EXCEPT !.w.cs[r].byKey[key] = change],
                                 b, r, k + 1)

\* ... then push each primitive change of the argument and prepare it
\* against the result.
RECURSIVE listMergePrims(_, _, _, _)
listMergePrims(w, primitiveChanges, r, i) ==
  IF i > Len(primitiveChanges) THEN w
  ELSE listMergePrims(
         primPrepare([w EXCEPT !.cs[r].prims = Append(@, primitiveChanges[i])],
                     r, primitiveChanges[i]),
         primitiveChanges, r, i + 1)

listCompose(w, a, b) ==
  IF isComposeInvalid(w, a, b) THEN ComposeThrows(w)
  ELSE LET r == ResultId(w.cs[b].target)
           w1 == [w EXCEPT !.cs[r] =
                    [newResult(w, b) EXCEPT !.byKey = w.cs[a].byKey,
                                            !.prims = w.cs[a].prims]]
           S == listMergeChildren([w |-> w1, err |-> FALSE], b, r, 1)
       IN IF S.err THEN ComposeThrows(w)
          ELSE [w |-> listMergePrims(S.w, S.w.cs[b].prims, r, 1),
                outcome |-> "ok", id |-> r]

\* changeset.compose(other), by the kind of the receiver.
compose(w, a, b) ==
  IF w.cs[a].kind = "list" THEN listCompose(w, a, b)
  ELSE complexCompose(w, a, b)

\* The results of an earlier compose are dropped.
dropResults(w) ==
  [w EXCEPT !.cs = [id \in CsIds |->
                      IF id[1] = ComposeTxn THEN NoCs ELSE w.cs[id]]]

\* ---------------------------------------------------------------- clearing changes
\* Add#_cancel, Remove#_cancel, Clear#_cancel: undo _prepare.
RECURSIVE addEach(_, _, _, _)
addEach(w, id, elems, k) ==
  IF k > Len(elems) THEN w
  ELSE addEach(listAddComplexElement(w, id, elems[k]), id, elems, k + 1)

primCancel(w, id, prim) ==
  CASE prim.type = "add" -> listRemoveComplexElement(w, id, prim.elems[1])
    [] prim.type = "remove" -> addEach(w, id, prim.elems, 1)
    [] prim.type = "clear" -> addEach(w, id, prim.elems, 1)
    [] OTHER -> w

RECURSIVE cancelPrims(_, _, _, _)
cancelPrims(w, id, prims, k) ==
  IF k > Len(prims) THEN w
  ELSE cancelPrims(primCancel(w, id, prims[k]), id, prims, k + 1)

\* ListChangeset#_clearChanges and ComplexChangeset#_clearChanges: the
\* primitive changes are cancelled and dropped, the child changesets that are
\* accessible are cleared in turn.
RECURSIVE clearChanges(_, _)
RECURSIVE clearChildren(_, _, _)
RECURSIVE clearProperties(_, _, _)
clearChildren(w, id, k) ==
  IF k > Len(KeySeq) THEN w
  ELSE IF w.cs[id].byKey[KeySeq[k]] # NoId
  THEN clearChildren(clearChanges(w, w.cs[id].byKey[KeySeq[k]]), id, k + 1)
  ELSE clearChildren(w, id, k + 1)

clearProperties(w, id, k) ==
  IF k > Len(PropSeq) THEN w
  ELSE IF w.cs[id].changes[PropSeq[k]].kind = "cset"
  THEN clearProperties(clearChanges(w, w.cs[id].changes[PropSeq[k]].id), id, k + 1)
  ELSE IF w.cs[id].changes[PropSeq[k]].kind = "replace"
  THEN clearProperties(
         replaceCancel([w EXCEPT !.cs[id].changes[PropSeq[k]] = NoEntry], id,
                       w.cs[id].changes[PropSeq[k]]),
         id, k + 1)
  ELSE clearProperties(w, id, k + 1)

listResetChanges(c) ==
  [c EXCEPT !.prims = <<>>, !.projMock = FALSE, !.mockCount = 0,
            !.mockElems = <<>>, !.mockKeys = {}, !.lastClearIndex = -1]

clearChanges(w, id) ==
  IF w.cs[id].kind = "list"
  THEN [clearChildren(cancelPrims(w, id, w.cs[id].prims, 1), id, 1)
          EXCEPT !.cs[id] = listResetChanges(@)]
  ELSE clearProperties(w, id, 1)

\* Transaction reject: every changeset of the transaction is cleared and
\* cancelled.
TargetSeq == <<ROOT, LIST, "a", "b", "c">>

RECURSIVE rejectEach(_, _, _)
rejectEach(w, t, k) ==
  IF k > Len(TargetSeq) THEN w
  ELSE IF w.cs[<<t, TargetSeq[k]>>].exists
  THEN rejectEach([clearChanges(w, <<t, TargetSeq[k]>>)
                     EXCEPT !.cs[<<t, TargetSeq[k]>>].status = "cancelled"],
                  t, k + 1)
  ELSE rejectEach(w, t, k + 1)

\* ---------------------------------------------------------------- state
NoLast ==
  [op |-> "none", target |-> "none", name |-> "none", value |-> Null,
   force |-> FALSE, outcome |-> "none", a |-> NoId, b |-> NoId,
   fragment |-> <<>>, add |-> FALSE, update |-> FALSE, remove |-> FALSE,
   move |-> FALSE, index |-> <<>>, before |-> <<>>, nprims |-> 0,
   count |-> <<>>, key |-> <<>>, idPrefix |-> <<>>, id |-> Null]

InitTxn ==
  [id |-> 0, open |-> FALSE, version |-> 0, crefs |-> NoRefs,
   closed |-> [t \in TxnIds |-> 0], depth |-> 0]

\* The committed content before the first transaction: p holds the element
\* pIni (or nothing), q holds qIni specified (or its default).
InitStore(pIni, qIni) ==
  [vals |-> [t \in ComplexTargets |->
               [n \in PropNames |->
                  IF t = ROOT /\ n = "p" THEN pIni
                  ELSE IF t = ROOT /\ n = "q" THEN toValueOn("q", qIni)
                  ELSE IF n \in PropsOf(t) THEN DefaultValue(n) ELSE Null]],
   sts |-> [t \in ComplexTargets |->
              [n \in PropNames |->
                 IF t = ROOT /\ n = "p" THEN stateOfSpec(pIni)
                 ELSE IF t = ROOT /\ n = "q" THEN stateOfSpec(qIni)
                 ELSE PROP_VALUE_DEFAULT]],
   elems |-> <<"a", "b">>,
   keys |-> {"a", "b"},
   pDefault |-> Null,
   dom |-> <<>>,
   listReadOnly |-> FALSE,
   needReadOnlyElementValidation |-> FALSE,
   version |-> [t \in Targets |-> 1]]

Init ==
  /\ \E pIni \in {Null, "a"} : \E qIni \in {Null, "v1", "v2"} :
       store = InitStore(pIni, qIni)
  /\ txn = InitTxn
  /\ cs = [id \in CsIds |-> NoCs]
  /\ last = NoLast

Did(op) == [NoLast EXCEPT !.op = op]

\* Transaction.enter() from outside any scope: a new transaction.
EnterScope(ids) ==
  /\ ~txn.open
  /\ txn.id + 1 \in ids
  /\ txn' = [txn EXCEPT !.id = @ + 1, !.open = TRUE, !.version = 0,
                        !.crefs = NoRefs, !.depth = 1]
  /\ last' = Did("enter")
  /\ UNCHANGED <<store, cs>>

\* Complex#set of an element property, inside the scope.
SetPropertyCall(l, complex, name, valueNewSpec, forceReplace) ==
  /\ txn.open
  /\ LET r == setElement(Work, complex, name, valueNewSpec, forceReplace)
     IN /\ r.w.version <= MaxVersion
        /\ cs' = r.w.cs
        /\ txn' = [txn EXCEPT !.version = r.w.version, !.crefs = r.w.crefs]
        /\ last' = [l EXCEPT !.outcome = r.outcome]
  /\ UNCHANGED store

\* The call that is examined: its arguments are recorded.
SetProperty(complex, name, valueNewSpec, forceReplace) ==
  SetPropertyCall([Did("setProperty") EXCEPT !.target = complex, !.name = name,
                     !.value = valueNewSpec, !.force = forceReplace],
                  complex, name, valueNewSpec, forceReplace)

\* complex.set(name, valueNewSpec) on the way to the call that is examined.
SetValue(complex, name, valueNewSpec) ==
  SetPropertyCall(Did("setValue"), complex, name, valueNewSpec, FALSE)

\* The outermost scope is accepted: every changeset is applied to its target.
Commit ==
  /\ txn.open
  /\ store' =
       [store EXCEPT
          !.vals = [t \in ComplexTargets |->
                      IF cs[CurId(t)].exists
                      THEN complexApplyValues(cs, CurId(t), store.vals[t])
                      ELSE store.vals[t]],
          !.sts = [t \in ComplexTargets |->
                     IF cs[CurId(t)].exists
                     THEN complexApplyStates(cs, CurId(t), store.sts[t])
                     ELSE store.sts[t]],
          !.elems = IF cs[CurId(LIST)].exists
                    THEN listApply(cs[CurId(LIST)], targetList).elems
                    ELSE store.elems,
          !.keys = IF cs[CurId(LIST)].exists
                   THEN listApply(cs[CurId(LIST)], targetList).keys
                   ELSE store.keys,
          !.version = [t \in Targets |->
                         IF cs[CurId(t)].exists /\ csHasChanges(cs, CurId(t))
                         THEN store.version[t] + 1 ELSE store.version[t]]]
  /\ cs' = [id \in CsIds |->
              IF id[1] = txn.id /\ cs[id].exists
              THEN [cs[id] EXCEPT !.status = "applied", !.projMock = FALSE,
                                  !.mockCount = 0, !.mockElems = <<>>,
                                  !.mockKeys = {}]
              ELSE cs[id]]
  /\ txn' = [txn EXCEPT !.open = FALSE, !.crefs = NoRefs,
                        !.closed[txn.id] = txn.version, !.depth = 0]
  /\ last' = Did("commit")

\* The outermost scope is rejected: no changeset is applied.
Reject ==
  /\ txn.open
  /\ cs' = rejectEach(Work, txn.id, 1).cs
  /\ txn' = [txn EXCEPT !.open = FALSE, !.crefs = NoRefs,
                        !.closed[txn.id] = txn.version, !.depth = 0]
  /\ last' = Did("reject")
  /\ UNCHANGED store

\* One transaction over the complex values, every property and input.
Next ==
  \/ EnterScope({1})
  \/ \E complex \in {ROOT, "a"} : \E name \in PropsOf(complex) :
       \E valueNewSpec \in SpecsOf(name) : \E forceReplace \in BOOLEAN :
         SetProperty(complex, name, valueNewSpec, forceReplace)
  \/ Commit

Spec == Init /\ [][Next]_vars

\* A root whose property p holds its default value, the element a, in
\* state Default; one transaction over the same calls.
InitDefaults ==
  /\ \E qIni \in {Null, "v1", "v2"} :
       store = [InitStore("a", qIni) EXCEPT
                  !.pDefault = "a",
                  !.sts[ROOT]["p"] = PROP_VALUE_DEFAULT]
  /\ txn = InitTxn
  /\ cs = [id \in CsIds |-> NoCs]
  /\ last = NoLast

SpecDefaults == InitDefaults /\ [][Next]_vars

\* ---------------------------------------------------------------- list actions
\* The sequences without repetition over a set, up to a length.
RECURSIVE DistinctSeqs(_, _)
DistinctSeqs(S, n) ==
  IF n = 0 THEN {<<>>}
  ELSE {<<>>} \cup {<<x>> \o t : x \in S, t \in DistinctSeqs(S, n - 1)}

NoRepeat(s) == \A i, j \in 1..Len(s) : s[i] = s[j] => i = j

Lists == {s \in DistinctSeqs(Elems, MaxLen) : NoRepeat(s)}

\* A committed list of elements, before the first transaction.
InitLists == {<<>>, <<"a">>, <<"a", "b">>, <<"a", "b", "c">>}

InitList ==
  /\ \E elems \in InitLists :
       store = [InitStore(Null, Null) EXCEPT !.elems = elems,
                                             !.keys = SeqToSet(elems)]
  /\ txn = InitTxn
  /\ cs = [id \in CsIds |-> NoCs]
  /\ last = NoLast

\* List#set inside the scope: the changeset of the list is ensured, then
\* __set reconciles the projected content against the fragment.
TakeListResult(r, l) ==
  /\ Len(r.w.cs[CurId(LIST)].prims) <= MaxChanges
  /\ cs' = r.w.cs
  /\ txn' = [txn EXCEPT !.version = r.w.version, !.crefs = r.w.crefs]
  /\ last' = [l EXCEPT !.outcome = r.outcome]

ListSetCall(l, fragment, add, update, remove, move, index) ==
  /\ txn.open
  /\ TakeListResult(listSet(ensureChangeset(Work, LIST), CurId(LIST),
                            fragment, add, update, remove, move, index), l)
  /\ UNCHANGED store

\* List#set(fragment, {noUpdate: true}): adds, removes and moves.
ListSetDefault(fragment) ==
  /\ last.op # "set"
  /\ ListSetCall(Did("setDefault"), fragment, TRUE, FALSE, TRUE, TRUE, <<>>)

\* __set with any flags and index; the behaviour is explored up to this call.
ListSet(fragment, add, update, remove, move, index) ==
  /\ last.op # "set"
  /\ ListSetCall([Did("set") EXCEPT !.target = LIST, !.fragment = fragment,
                    !.add = add, !.update = update, !.remove = remove,
                    !.move = move, !.index = index,
                    !.before = projectedMock(cs[CurId(LIST)]).elems,
                    !.nprims = Len(cs[CurId(LIST)].prims)],
                 fragment, add, update, remove, move, index)

SetIndexes == {<<>>, <<0>>, <<1>>, <<-1>>}

\* One transaction over a list: default sets, then a set of any fragment,
\* flags and index.
NextList ==
  \/ EnterScope({1})
  \/ \E fragment \in Lists : ListSetDefault(fragment)
  \/ \E fragment \in Lists : \E add, remove, move \in BOOLEAN :
       \E index \in SetIndexes :
         ListSet(fragment, add, FALSE, remove, move, index)

SpecList == InitList /\ [][NextList]_vars

\* ---------------------------------------------------------------- list operation actions
\* The list changesets a caller may hold: the one of the open transaction
\* (created on the first call) and those that exist.
ListIds == {id \in CsIds : id[2] = LIST}

canCall(id) == (txn.open /\ id = CurId(LIST)) \/ cs[id].exists

opWork(id) ==
  IF txn.open /\ id = CurId(LIST) THEN ensureChangeset(Work, LIST) ELSE Work

\* The result of a call on the changeset id is taken over.
TakeOpResult(r, l, id) ==
  /\ cs' = r.w.cs
  /\ txn' = [txn EXCEPT !.version = r.w.version, !.crefs = r.w.crefs]
  /\ last' = [l EXCEPT !.outcome = r.outcome]
  /\ UNCHANGED store

\* The changes a changeset may hold, when calls follow one another.
TakeBounded(r, l, id) ==
  /\ Len(r.w.cs[id].prims) <= MaxChanges
  /\ TakeOpResult(r, l, id)

\* The call that is examined: the changeset, what it projected and how many
\* changes it held before the call are recorded with the arguments.
examined(op, id) ==
  [Did(op) EXCEPT !.target = LIST, !.a = id,
                  !.before = projectedMock(cs[id]).elems,
                  !.nprims = Len(cs[id].prims)]

ExaminedOps == {"set", "remove", "removeAt", "move", "sort", "clear"}

Fresh == last.op \notin ExaminedOps

\* ListChangeset#__set with every flag, on a changeset that is held.
ListSetAll(id, fragment) ==
  /\ Fresh /\ canCall(id)
  /\ TakeBounded(listSet(opWork(id), id, fragment, TRUE, FALSE, TRUE, TRUE, <<>>),
                  [examined("set", id) EXCEPT !.fragment = fragment, !.add = TRUE,
                                              !.remove = TRUE, !.move = TRUE],
                  id)

ListRemove(id, fragment) ==
  /\ Fresh /\ canCall(id)
  /\ TakeBounded(listRemove(opWork(id), id, fragment),
                  [examined("remove", id) EXCEPT !.fragment = fragment], id)

ListRemoveAt(id, start, count) ==
  /\ Fresh /\ canCall(id)
  /\ TakeBounded(listRemoveAt(opWork(id), id, start, count),
                  [examined("removeAt", id) EXCEPT !.index = <<start>>,
                                                   !.count = count], id)

ListMove(id, elem, indexNew) ==
  /\ Fresh /\ canCall(id)
  /\ TakeBounded(listMove(opWork(id), id, elem, indexNew),
                  [examined("move", id) EXCEPT !.value = elem,
                                               !.index = <<indexNew>>], id)

ListSort(id, comparer) ==
  /\ Fresh /\ canCall(id)
  /\ TakeBounded(listSort(opWork(id), id, comparer),
                  [examined("sort", id) EXCEPT !.value = comparer], id)

ListClear(id) ==
  /\ Fresh /\ canCall(id)
  /\ TakeBounded(listClear(opWork(id), id), examined("clear", id), id)

\* Calls on the way to the call that is examined.
StepClear ==
  /\ Fresh /\ txn.open
  /\ TakeBounded(listClear(opWork(CurId(LIST)), CurId(LIST)), Did("step"),
                  CurId(LIST))

StepSort(comparer) ==
  /\ Fresh /\ txn.open
  /\ TakeBounded(listSort(opWork(CurId(LIST)), CurId(LIST), comparer),
                  Did("step"), CurId(LIST))

StepSet(fragment) ==
  /\ Fresh /\ txn.open
  /\ TakeBounded(listSet(opWork(CurId(LIST)), CurId(LIST), fragment,
                          TRUE, FALSE, TRUE, TRUE, <<>>),
                  Did("step"), CurId(LIST))

\* The fragments of a remove: also another instance of an element.
RemoveFragments ==
  Lists \cup {<<"a2">>, <<"a2", "b">>, <<"c", "a2">>, <<"a", "a2">>}

RemoveAtStarts == {-4, -1, 0, 1, 2, 3}
RemoveAtCounts == {<<>>, <<-1>>, <<0>>, <<1>>, <<2>>, <<3>>}
MoveIndexes == {-4, -1, 0, 1, 2, 3, 4}

InitOps ==
  /\ \E elems \in InitLists :
       store = [InitStore(Null, Null) EXCEPT !.elems = elems,
                                             !.keys = SeqToSet(elems)]
  /\ txn = InitTxn
  /\ cs = [id \in CsIds |-> NoCs]
  /\ last = NoLast

\* One transaction over an editable list: steps, then one call of remove,
\* removeAt, move, sort or clear with any arguments, then the commit.
NextOps ==
  \/ EnterScope({1})
  \/ \E fragment \in Lists : StepSet(fragment)
  \/ StepClear
  \/ \E comparer \in {"asc", "desc"} : StepSort(comparer)
  \/ \E fragment \in RemoveFragments : txn.open /\ ListRemove(CurId(LIST), fragment)
  \/ \E start \in RemoveAtStarts : \E count \in RemoveAtCounts :
       txn.open /\ ListRemoveAt(CurId(LIST), start, count)
  \/ \E elem \in Elems \cup {"a2"} : \E indexNew \in MoveIndexes :
       txn.open /\ ListMove(CurId(LIST), elem, indexNew)
  \/ \E comparer \in {"asc", "desc"} : txn.open /\ ListSort(CurId(LIST), comparer)
  \/ txn.open /\ ListClear(CurId(LIST))
  \/ Commit

SpecOps == InitOps /\ [][NextOps]_vars

\* The first call of a transaction: __set with any flags and index, on any
\* list of up to three elements.
ListSetOnce(fragment, add, remove, move, index) ==
  /\ txn.open /\ last.op = "enter"
  /\ TakeOpResult(listSet(opWork(CurId(LIST)), CurId(LIST), fragment,
                          add, FALSE, remove, move, index),
                  [examined("set", CurId(LIST)) EXCEPT
                     !.fragment = fragment, !.add = add, !.remove = remove,
                     !.move = move, !.index = index],
                  CurId(LIST))

InitSetOnce ==
  /\ \E elems \in Lists :
       store = [InitStore(Null, Null) EXCEPT !.elems = elems,
                                             !.keys = SeqToSet(elems)]
  /\ txn = InitTxn
  /\ cs = [id \in CsIds |-> NoCs]
  /\ last = NoLast

SetOnceIndexes == {<<>>, <<0>>, <<1>>, <<2>>, <<-1>>}

NextSetOnce ==
  \/ EnterScope({1})
  \/ \E fragment \in Lists : \E add, remove, move \in BOOLEAN :
       \E index \in SetOnceIndexes :
         ListSetOnce(fragment, add, remove, move, index)
  \/ Commit

SpecSetOnce == InitSetOnce /\ [][NextSetOnce]_vars

\* ---------------------------------------------------------------- set, repeated
\* The fragments of a set: also those that list an element more than once.
Fragments == UNION {[1..n -> Elems] : n \in 0..MaxLen}

\* The same __set call again, right after the first.
ListSetAgain ==
  /\ txn.open /\ last.op = "set" /\ last.outcome = "ok"
  /\ TakeOpResult(listSet(opWork(CurId(LIST)), CurId(LIST), last.fragment,
                          last.add, FALSE, last.remove, last.move, last.index),
                  [examined("setAgain", CurId(LIST)) EXCEPT
                     !.fragment = last.fragment, !.add = last.add,
                     !.remove = last.remove, !.move = last.move,
                     !.index = last.index],
                  CurId(LIST))

\* One transaction: __set with any flags and any fragment, the same call
\* again, then the commit.
NextSetTwice ==
  \/ EnterScope({1})
  \/ \E fragment \in Fragments : \E add, remove, move \in BOOLEAN :
       ListSetOnce(fragment, add, remove, move, <<>>)
  \/ ListSetAgain
  \/ Commit

SpecSetTwice == InitSetOnce /\ [][NextSetTwice]_vars

\* ---------------------------------------------------------------- compose actions
\* a.compose(b) on changesets held from any transaction, also after it was
\* committed; b may be no changeset at all (NoId).
Compose(a, b) ==
  /\ cs[a].exists /\ a[1] # ComposeTxn
  /\ b # NoId => (cs[b].exists /\ b[1] # ComposeTxn)
  /\ LET r == compose(dropResults(Work), a, b)
     IN /\ cs' = r.w.cs
        /\ txn' = [txn EXCEPT !.version = r.w.version, !.crefs = r.w.crefs]
        /\ last' = [Did("compose") EXCEPT !.a = a, !.b = b,
                                          !.outcome = r.outcome]
  /\ UNCHANGED store

\* The editing stops at the compose that is examined.
Editing == last.op # "compose"

InitCompose ==
  /\ \E pIni \in {Null, "a"} : store = InitStore(pIni, Null)
  /\ txn = InitTxn
  /\ cs = [id \in CsIds |-> NoCs]
  /\ last = NoLast

\* Two transactions over root.p and a.x, then a compose of any two
\* changesets of complex values.
NextCompose ==
  \/ Editing /\ EnterScope({1, 2})
  \/ Editing /\ \E valueNewSpec \in {Null, "a"} :
                  SetValue(ROOT, "p", valueNewSpec)
  \/ Editing /\ \E valueNewSpec \in {Null, "v1", "v2"} :
                  SetValue("a", "x", valueNewSpec)
  \/ Editing /\ Commit
  \/ Editing /\ \E a \in CsIds : \E b \in CsIds \cup {NoId} : Compose(a, b)

SpecCompose == InitCompose /\ [][NextCompose]_vars

InitComposeList ==
  /\ store = [InitStore(Null, Null) EXCEPT !.elems = <<"b", "a">>]
  /\ txn = InitTxn
  /\ cs = [id \in CsIds |-> NoCs]
  /\ last = NoLast

\* The versions taken so far, over all the transactions.
RECURSIVE SumClosed(_)
SumClosed(T) ==
  IF T = {} THEN 0
  ELSE LET t == CHOOSE u \in T : TRUE
       IN txn.closed[t] + SumClosed(T \ {t})

EditsMade == (IF txn.open THEN txn.version ELSE 0) + SumClosed(TxnIds)

\* Three transactions over the list and a.x, a bounded number of changes in
\* all, then a compose of a list changeset with any argument.
NextComposeList ==
  \/ Editing /\ EnterScope(TxnIds)
  \/ Editing /\ EditsMade < MaxEdits
             /\ \E valueNewSpec \in {Null, "v1"} :
                  SetValue("a", "x", valueNewSpec)
  \/ Editing /\ EditsMade < MaxEdits
             /\ \E fragment \in {<<"b">>, <<"b", "a">>} :
                  ListSetDefault(fragment)
  \/ Editing /\ Commit
  \/ Editing /\ \E t \in TxnIds : \E b \in CsIds \cup {NoId} :
                  Compose(<<t, LIST>>, b)

SpecComposeList == InitComposeList /\ [][NextComposeList]_vars

\* ---------------------------------------------------------------- guarded calls
\* Lists that are read-only, or that take elements of read-only types only,
\* and changesets that were applied, cancelled or composed.
InitGuards ==
  /\ \E elems \in {<<>>, <<"a", "b">>, <<"c", "a", "b">>} :
       \E ro, validate \in BOOLEAN :
         store = [InitStore(Null, Null) EXCEPT
                    !.elems = elems, !.keys = SeqToSet(elems),
                    !.listReadOnly = ro,
                    !.needReadOnlyElementValidation = validate]
  /\ txn = InitTxn
  /\ cs = [id \in CsIds |-> NoCs]
  /\ last = NoLast

GuardFragments == {<<>>, <<"a">>, <<"c">>, <<"a", "b">>, <<"b", "a">>, <<"a2">>}
GuardStarts == {-1, 0, 3}
GuardCounts == {<<>>, <<-1>>, <<0>>}
GuardIndexes == {-1, 0, 1}

\* Up to two transactions, each committed or rejected, and a composition;
\* then one call on any list changeset that is held.
NextGuards ==
  \/ Fresh /\ EnterScope({1, 2})
  \/ \E fragment \in {<<"b">>, <<"a", "c">>} : StepSet(fragment)
  \/ Fresh /\ Commit
  \/ Fresh /\ Reject
  \/ Fresh /\ \E a \in ListIds : \E b \in ListIds \cup {NoId} : Compose(a, b)
  \/ \E id \in ListIds : \E fragment \in GuardFragments : ListSetAll(id, fragment)
  \/ \E id \in ListIds : \E fragment \in GuardFragments : ListRemove(id, fragment)
  \/ \E id \in ListIds : \E start \in GuardStarts : \E count \in GuardCounts :
       ListRemoveAt(id, start, count)
  \/ \E id \in ListIds : \E elem \in {"a", "c"} : \E indexNew \in GuardIndexes :
       ListMove(id, elem, indexNew)
  \/ \E id \in ListIds : ListSort(id, "asc")
  \/ \E id \in ListIds : ListClear(id)

SpecGuards == InitGuards /\ [][NextGuards]_vars

\* ---------------------------------------------------------------- mixed edits
\* Complex#set inside the scope, while the transaction has taken fewer than
\* MaxEdits versions.
SetAny(complex, name, valueNewSpec, forceReplace) ==
  /\ txn.open /\ txn.version < MaxEdits
  /\ TakeOpResult(setElement(Work, complex, name, valueNewSpec, forceReplace),
                  [Did("setProperty") EXCEPT !.target = complex, !.name = name,
                     !.value = valueNewSpec, !.force = forceReplace],
                  CurId(complex))

InitMixed ==
  /\ \E pIni \in {Null, "a"} :
       store = [InitStore(pIni, "v2") EXCEPT !.elems = <<"a", "b">>,
                                             !.keys = {"a", "b"}]
  /\ txn = InitTxn
  /\ cs = [id \in CsIds |-> NoCs]
  /\ last = NoLast

MixedSpecs(name) ==
  IF name = "p" THEN {Null, "a"}
  ELSE IF name = "q" THEN {"v1", "v1b"}
  ELSE {Null, "v1"}

\* One transaction that edits root, the element a and the list, and is
\* committed or rejected.
NextMixed ==
  \/ EnterScope({1})
  \/ \E complex \in {ROOT, "a"} : \E name \in PropsOf(complex) \ {"ro"} :
       \E valueNewSpec \in MixedSpecs(name) :
         SetAny(complex, name, valueNewSpec, FALSE)
  \/ SetAny(ROOT, "q", "v1b", TRUE)
  \/ txn.version < MaxEdits /\ StepSet(<<"b">>)
  \/ txn.version < MaxEdits /\ StepClear
  \/ txn.open /\ txn.version < MaxEdits /\ ListRemoveAt(CurId(LIST), 0, <<>>)
  \/ Commit
  \/ Reject

SpecMixed == InitMixed /\ [][NextMixed]_vars

\* ---------------------------------------------------------------- clearChanges
\* Changeset#clearChanges on the changeset of a target, inside the scope.
ClearChanges(target) ==
  /\ txn.open
  /\ cs[CurId(target)].exists /\ isWritable(cs[CurId(target)])
  /\ TakeOpResult(opOk(clearChanges(Work, CurId(target))),
                  [Did("clearChanges") EXCEPT !.target = target,
                                              !.a = CurId(target)],
                  CurId(target))

\* One transaction that edits root, the elements a and c and the list,
\* clears the changes of root or of the list, and is committed.
NextClear ==
  \/ EnterScope({1})
  \/ \E valueNewSpec \in {Null, "a", "c"} : SetAny(ROOT, "p", valueNewSpec, FALSE)
  \/ \E complex \in {"a", "c"} : \E valueNewSpec \in {Null, "v1"} :
       SetAny(complex, "x", valueNewSpec, FALSE)
  \/ \E fragment \in {<<"a", "b", "c">>, <<"b">>} :
       txn.version < MaxEdits /\ StepSet(fragment)
  \/ txn.version < MaxEdits /\ StepClear
  \/ \E target \in {ROOT, LIST} : ClearChanges(target)
  \/ Commit

SpecClear == InitMixed /\ [][NextClear]_vars

\* ---------------------------------------------------------------- a failing edit
\* __setElement reaches "New change": no no-op, no read-only property, no
\* Replace to update.
isNewChange(w, complex, name, valueNewSpec, forceReplace) ==
  /\ ~isNoopSet(w, complex, name, valueNewSpec, forceReplace)
  /\ ~isReadOnlyProp(name)
  /\ ambientReplace(w, complex, name).kind # "replace"

\* __setPrimitiveChange when change._prepare throws: the change was assigned
\* to _changes[name] before, nothing after the call of _prepare is run.
setPrimitiveChangeThrows(w, id, name, change) ==
  [w EXCEPT !.cs[id].changes[name] = change]

\* __setElement, "New change", when the Replace fails to prepare: the scope
\* was entered and the changeset ensured; scope.accept() is not reached.
setElementThrows(w, complex, name, valueNewSpec, forceReplace) ==
  setPrimitiveChangeThrows(
    ensureChangeset(w, complex), CurId(complex), name,
    Replace(valueToRecord(w, complex, name, valueNewSpec, forceReplace),
            stateOfSpec(valueNewSpec), store.vals[complex][name]))

\* Complex#set whose new Replace throws in _prepare: the error leaves
\* __setElement with the scope of Transaction.enter() still entered.
SetPropertyThrows(complex, name, valueNewSpec, forceReplace) ==
  /\ txn.open
  /\ isNewChange(Work, complex, name, valueNewSpec, forceReplace)
  /\ cs' = setElementThrows(Work, complex, name, valueNewSpec, forceReplace).cs
  /\ txn' = [txn EXCEPT !.depth = @ + 1]
  /\ last' = [Did("setProperty") EXCEPT !.target = complex, !.name = name,
                !.value = valueNewSpec, !.force = forceReplace,
                !.outcome = "Error"]
  /\ UNCHANGED store

\* One transaction of sets, one of which may fail in _prepare; the
\* behaviour is explored up to the failure.
NextThrows ==
  \/ last.outcome # "Error" /\ EnterScope({1})
  \/ last.outcome # "Error" /\
       \E complex \in {ROOT, "a"} : \E name \in PropsOf(complex) :
         \E valueNewSpec \in SpecsOf(name) : SetValue(complex, name, valueNewSpec)
  \/ last.outcome # "Error" /\
       \E complex \in {ROOT, "a"} : \E name \in PropsOf(complex) :
         \E valueNewSpec \in SpecsOf(name) : \E forceReplace \in BOOLEAN :
           SetPropertyThrows(complex, name, valueNewSpec, forceReplace)
  \/ last.outcome # "Error" /\ Commit

SpecThrows == Init /\ [][NextThrows]_vars

\* ---------------------------------------------------------------- util.localizeDomCtrl
\* Strings are sequences of characters. The suffixes that localizeDomCtrl
\* tests, in the order of its if chain, with the property each one sets.
Suffixes ==
  << [suffix |-> <<"_", "l", "a", "b", "e", "l">>, prop |-> "label"],
     [suffix |-> <<"_", "t", "i", "t", "l", "e">>, prop |-> "title"],
     [suffix |-> <<"_", "c", "o", "n", "t", "e", "n", "t">>, prop |-> "inner"],
     [suffix |-> <<"_", "l", "e", "g", "e", "n", "d">>, prop |-> "legend"],
     [suffix |-> <<"_", "h", "e", "a", "d", "e", "r">>, prop |-> "header"],
     [suffix |-> <<"_", "b", "u", "t", "t", "o", "n">>, prop |-> "inner"] >>

\* String#indexOf: the index of the first occurrence, or -1.
strIndexOf(str, searchString) ==
  IF \E i \in 0..(Len(str) - Len(searchString)) :
       SubSeq(str, i + 1, i + Len(searchString)) = searchString
  THEN CHOOSE i \in 0..(Len(str) - Len(searchString)) :
         /\ SubSeq(str, i + 1, i + Len(searchString)) = searchString
         /\ \A j \in 0..(i - 1) :
              SubSeq(str, j + 1, j + Len(searchString)) # searchString
  ELSE -1

\* String#substr(0, length): nothing when length is not positive.
substr(str, length) ==
  IF length <= 0 THEN <<>> ELSE SubSeq(str, 1, Min(length, Len(str)))

\* key.indexOf(suffix) == key.length - suffix.length
isCtrlKey(key, k) ==
  strIndexOf(key, Suffixes[k].suffix) = Len(key) - Len(Suffixes[k].suffix)

\* The branch of the if chain that a key takes: 0 when it takes none.
ctrlBranch(key) ==
  IF \E k \in 1..Len(Suffixes) : isCtrlKey(key, k)
  THEN CHOOSE k \in 1..Len(Suffixes) :
         isCtrlKey(key, k) /\ \A j \in 1..(k - 1) : ~isCtrlKey(key, j)
  ELSE 0

\* id = prefix + key.substr(0, key.length - suffix.length), or null.
ctrlId(key, idPrefix) ==
  IF ctrlBranch(key) = 0 THEN Null
  ELSE idPrefix \o substr(key, Len(key) - Len(Suffixes[ctrlBranch(key)].suffix))

\* this[id], registry.byId(id), dom.byId(id): the control with an id.
byId(dom, id) == id \in DOMAIN dom /\ dom[id].exists

\* The body of the loop: the property of the control takes the text.
setCtrl(dom, id, prop, text) == [dom EXCEPT ![id][prop] = text]

\* The indexed items id1, id2, ...: each takes the text, up to the first
\* index that names no control.
RECURSIVE setIndexed(_, _, _, _, _)
setIndexed(dom, id, index, prop, text) ==
  IF byId(dom, id \o <<ToString(index)>>)
  THEN setIndexed(setCtrl(dom, id \o <<ToString(index)>>, prop, text),
                  id, index + 1, prop, text)
  ELSE dom

\* util.localizeDomCtrl(key, text, idPrefix)
localizeDomCtrl(dom, key, text, idPrefix) ==
  IF ctrlBranch(key) = 0 THEN dom
  ELSE IF byId(dom, ctrlId(key, idPrefix))
  THEN setCtrl(dom, ctrlId(key, idPrefix), Suffixes[ctrlBranch(key)].prop, text)
  ELSE setIndexed(dom, ctrlId(key, idPrefix), 1,
                  Suffixes[ctrlBranch(key)].prop, text)

\* The ids that controls may have, and a control that was not localized.
DomIds ==
  {<<"a">>, <<"p">>, <<"p", "a">>, <<"1">>, <<"a", "a", "1">>, <<"a", "a", "2">>}

NoCtrl ==
  [exists |-> FALSE, label |-> "t0", title |-> "t0", inner |-> "t0",
   legend |-> "t0", header |-> "t0"]

\* The keys of a bundle: up to MaxStem characters, then a suffix or none.
Stems == UNION {[1..n -> {"a"}] : n \in 0..MaxStem}

BundleKeys ==
  {stem \o tail : stem \in Stems,
                  tail \in {<<>>} \cup {Suffixes[k].suffix : k \in 1..Len(Suffixes)}}

InitDom ==
  /\ \E present \in SUBSET DomIds :
       store = [InitStore(Null, Null) EXCEPT
                  !.dom = [id \in DomIds |->
                             [NoCtrl EXCEPT !.exists = id \in present]]]
  /\ txn = InitTxn
  /\ cs = [id \in CsIds |-> NoCs]
  /\ last = NoLast

\* One call of localizeDomCtrl, as localizeDom makes for a key of the bundle.
LocalizeDomCtrl(key, text, idPrefix) ==
  /\ last.op = "none"
  /\ store' = [store EXCEPT !.dom = localizeDomCtrl(@, key, text, idPrefix)]
  /\ last' = [Did("localizeDomCtrl") EXCEPT !.key = key, !.value = text,
                 !.idPrefix = idPrefix, !.id = ctrlId(key, idPrefix)]
  /\ UNCHANGED <<txn, cs>>

NextDom ==
  \E key \in BundleKeys : \E idPrefix \in {<<>>, <<"p">>} :
    LocalizeDomCtrl(key, "t1", idPrefix)

SpecDom == InitDom /\ [][NextDom]_vars

\* ---------------------------------------------------------------- claims
\* The Replace of the property named by the next call holds a value or a
\* state that differs from the initial (committed) one.
ReplaceIsNew(complex, name) ==
  LET pre == cs[CurId(complex)].changes[name]
  IN /\ cs[CurId(complex)].exists
     /\ pre.kind = "replace"
     /\ \/ pre.state # store.sts[complex][name]
        \/ ~areEqual(pre.value, store.vals[complex][name])

\* The call asked for the initial (committed) value and state.
AsksInitial(l) ==
  /\ l.op = "setProperty"
  /\ stateOfSpec(l.value) = store.sts[l.target][l.name]
  /\ areEqual(toValueOn(l.name, l.value), store.vals[l.target][l.name])

\* C1: round trip of setProperty. When a property whose Replace holds a new
\* value/state is set back to its initial (committed) value and state, the
\* Replace is removed: afterwards the changeset has no entry for the property
\* (no second entry, no Replace from initial to initial) and hasChange is false.
C1_RoundTrip ==
  [][(AsksInitial(last') /\ ReplaceIsNew(last'.target, last'.name))
     => /\ ~hasChange(cs', CurId(last'.target), last'.name)
        /\ cs'[CurId(last'.target)].changes[last'.name].kind = "none"
        /\ last'.outcome = "removed"]_vars

C1_Witness ==
  /\ AsksInitial(last)
  /\ last.outcome = "removed"
  /\ cs[CurId(last.target)].changes[last.name].kind = "none"

\* C2: idempotence of no-op sets. A setProperty call without forceReplace
\* that repeats the value/state of the call just before it on the same
\* property does nothing: no change is recorded or altered, no transaction
\* version is consumed, and the property keeps at most its one Replace.
C2_NoopSet ==
  [][(/\ last.op = "setProperty" /\ last'.op = "setProperty"
      /\ last'.target = last.target /\ last'.name = last.name
      /\ last'.value = last.value /\ ~last'.force)
     => /\ cs' = cs
        /\ txn' = txn
        /\ last'.outcome \in {"noop", "TypeError"}
        /\ (last.outcome # "TypeError" => last'.outcome = "noop")]_vars

C2_Witness ==
  /\ last.op = "setProperty"
  /\ last.outcome = "noop"
  /\ cs[CurId(last.target)].exists
  /\ cs[CurId(last.target)].changes[last.name].kind = "replace"
  /\ cs[CurId(last.target)].changes[last.name].value = toValueOn(last.name, last.value)
  /\ txn.version = 1

\* ---------------------------------------------------------------- list claims
\* The content of the list if the changeset were applied now: the committed
\* elements with every primitive change since the last Clear applied.
ProjectedOf(c) == applyFrom(c, targetList, 0).elems

Projected == ProjectedOf(cs[CurId(LIST)])

\* The changes the last call appended.
NewPrims == SubSeq(cs[CurId(LIST)].prims, last.nprims + 1, Len(cs[CurId(LIST)].prims))

CountType(prims, type) == Cardinality({i \in 1..Len(prims) : prims[i].type = type})

\* The elements of a fragment are in a list in the order of the fragment.
InFragmentOrder(fragment, elems) ==
  \A i, j \in 1..Len(fragment) :
    (i < j /\ indexOf(elems, fragment[i]) >= 0 /\ indexOf(elems, fragment[j]) >= 0)
    => indexOf(elems, fragment[i]) < indexOf(elems, fragment[j])

\* C8: set reconciles against the projected state. After a set with add,
\* remove and move enabled (no update, no index) the projected elements are
\* the fragment exactly; after any set with move enabled the elements of the
\* fragment are in the projected list in the order of the fragment.
C8_SetReconciles ==
  (last.op = "set" /\ last.outcome = "ok" /\ last.move)
  => /\ InFragmentOrder(last.fragment, Projected)
     /\ (last.add /\ last.remove /\ last.index = <<>>) => Projected = last.fragment

\* A set of a reordered fragment over a list that already has pending changes.
C8_Witness ==
  /\ last.op = "set" /\ last.outcome = "ok"
  /\ last.add /\ last.remove /\ last.move /\ last.index = <<>>
  /\ last.fragment = <<"c", "a">>
  /\ Len(cs[CurId(LIST)].prims) = 2
  /\ cs[CurId(LIST)].prims[2].type = "move"
  /\ Projected = <<"c", "a">>
  /\ store.elems = <<"a">>

\* The last call was a successful set with only move enabled.
MoveOnlySet(l) ==
  l.op = "set" /\ l.outcome = "ok" /\ l.move /\ ~l.add /\ ~l.remove

\* The positions of a fragment whose element is in a list.
Present(fragment, elems) ==
  {i \in 1..Len(fragment) : indexOf(elems, fragment[i]) >= 0}

\* The smallest number of single-element moves that brings the elements of
\* the fragment into fragment order: all but a longest already ordered part.
MinMoves(fragment, elems) ==
  LET ordered == {S \in SUBSET Present(fragment, elems) :
                    \A i, j \in S : i < j =>
                      indexOf(elems, fragment[i]) < indexOf(elems, fragment[j])}
      longest == CHOOSE n \in 0..Len(fragment) :
                   /\ \E S \in ordered : Cardinality(S) = n
                   /\ \A S \in ordered : Cardinality(S) <= n
  IN Cardinality(Present(fragment, elems)) - longest

\* C9 as stated: with only move enabled, set records the smallest number of
\* Moves that brings the elements of the fragment into fragment order.
C9_MinimalMoves ==
  MoveOnlySet(last)
  => CountType(NewPrims, "move") = MinMoves(last.fragment, last.before)

\* C9 amended: with only move enabled, set records nothing but Moves of
\* distinct elements of the fragment, fewer than the fragment has elements in
\* the list, and afterwards those elements are in fragment order; current
\* [a,b,c] with desired [a,c,b] records exactly one Move, of b from 1 to 2.
C9_MovesRestoreOrder ==
  MoveOnlySet(last)
  => /\ CountType(NewPrims, "move") = Len(NewPrims)
     /\ \A k, m \in 1..Len(NewPrims) :
          /\ NewPrims[k].elems[1] \in SeqToSet(last.fragment)
          /\ NewPrims[k].elems[1] = NewPrims[m].elems[1] => k = m
     /\ Present(last.fragment, last.before) # {}
          => Len(NewPrims) < Cardinality(Present(last.fragment, last.before))
     /\ InFragmentOrder(last.fragment, Projected)
     /\ (last.before = <<"a", "b", "c">> /\ last.fragment = <<"a", "c", "b">>)
          => /\ Len(NewPrims) = 1
             /\ NewPrims[1].elems = <<"b">>
             /\ NewPrims[1].index = 1
             /\ NewPrims[1].indexNew = 2

C9_Witness ==
  /\ MoveOnlySet(last)
  /\ last.before = <<"a", "b", "c">>
  /\ last.fragment = <<"a", "c", "b">>
  /\ Len(NewPrims) = 1
  /\ NewPrims[1].type = "move"
  /\ Projected = <<"a", "c", "b">>

\* The positions of a list whose element is not in the fragment.
Absent(fragment, elems) ==
  {i \in 1..Len(elems) : elems[i] \notin SeqToSet(fragment)}

\* The number of maximal runs of adjacent positions in a set of positions.
Runs(positions) == Cardinality({i \in positions : i - 1 \notin positions})

RemoveSet(l) == l.op = "set" /\ l.outcome = "ok" /\ l.remove

\* C10 as stated: set with remove enabled records a single Remove for each
\* contiguous run of removed positions.
C10_BatchedRemoves ==
  RemoveSet(last)
  => CountType(NewPrims, "remove") = Runs(Absent(last.fragment, last.before))

\* C10 amended: set with remove enabled removes the current elements whose
\* key is absent from the fragment, with one Remove of exactly one element
\* for each of them, recorded first and in list order, each at the index the
\* element has once the Removes before it are applied.
C10_OneRemovePerElement ==
  RemoveSet(last)
  => LET absent == Absent(last.fragment, last.before)
         n == Cardinality(absent)
     IN /\ CountType(NewPrims, "remove") = n
        /\ Len(NewPrims) >= n
        /\ \A k \in 1..n :
             /\ NewPrims[k].type = "remove"
             /\ Len(NewPrims[k].elems) = 1
             /\ \E i \in absent :
                  /\ Cardinality({j \in absent : j < i}) = k - 1
                  /\ NewPrims[k].elems[1] = last.before[i]
                  /\ NewPrims[k].index = (i - 1) - (k - 1)
        /\ \A e \in SeqToSet(Projected) : e \in SeqToSet(last.fragment)

C10_Witness ==
  /\ RemoveSet(last)
  /\ ~last.add /\ ~last.move
  /\ last.before = <<"a", "b", "c">>
  /\ last.fragment = <<"a">>
  /\ Len(NewPrims) = 2
  /\ NewPrims[1].elems = <<"b">> /\ NewPrims[1].index = 1
  /\ NewPrims[2].elems = <<"c">> /\ NewPrims[2].index = 1
  /\ Projected = <<"a">>

\* ---------------------------------------------------------------- compose claims
\* The last step was a compose that returned a changeset.
Composed == last.op = "compose" /\ last.outcome = "ok"

\* The changeset that the compose returned.
ResultOf == ResultId(cs[last.a].target)

\* C3: for changesets A and B on the same target with B.targetVersion >=
\* A.targetVersion, A.compose(B).hasChanges = (A.hasChanges or B.hasChanges),
\* also when A holds a Replace where B holds a nested changeset without
\* changes.
C3_ComposeHasChanges ==
  Composed =>
    csHasChanges(cs, ResultOf) =
      (csHasChanges(cs, last.a) \/ csHasChanges(cs, last.b))

\* The result r follows the merge rule for receiver a and argument b: where
\* both hold a nested changeset, a newly composed changeset that follows the
\* rule in turn; else the entry of b where b has one; else nothing but the
\* entry of a.
RECURSIVE FollowsMergeRule(_, _, _, _)
FollowsMergeRule(C, r, a, b) ==
  IF C[r].kind = "list"
  THEN \A k \in Elems :
         IF C[a].byKey[k] # NoId /\ C[b].byKey[k] # NoId
         THEN /\ C[r].byKey[k][1] = ComposeTxn
              /\ FollowsMergeRule(C, C[r].byKey[k], C[a].byKey[k], C[b].byKey[k])
         ELSE IF C[b].byKey[k] # NoId THEN C[r].byKey[k] = C[b].byKey[k]
         ELSE C[r].byKey[k] \in {C[a].byKey[k], NoId}
  ELSE \A name \in PropNames :
         IF C[a].changes[name].kind = "cset" /\ C[b].changes[name].kind = "cset"
         THEN /\ C[r].changes[name].kind = "cset"
              /\ C[r].changes[name].id[1] = ComposeTxn
              /\ FollowsMergeRule(C, C[r].changes[name].id,
                                  C[a].changes[name].id, C[b].changes[name].id)
         ELSE IF C[b].changes[name].kind # "none"
         THEN C[r].changes[name] = C[b].changes[name]
         ELSE C[r].changes[name] \in {C[a].changes[name], NoEntry}

\* C4: merge rule of compose: for each property name or element key, the
\* result holds the recursive composition where both sides hold a nested
\* changeset; otherwise the entry of the argument wins, and an entry of the
\* receiver is kept only where the argument has none.
C4_MergeRule ==
  Composed => FollowsMergeRule(cs, ResultOf, last.a, last.b)

\* Two changesets describe the same changes: entries without changes count
\* as absent.
RECURSIVE SameChanges(_, _, _)
SameChanges(C, x, y) ==
  IF C[x].kind = "list"
  THEN /\ C[x].prims = C[y].prims
       /\ \A k \in Elems :
            LET ex == C[x].byKey[k]
                ey == C[y].byKey[k]
                nx == ex = NoId \/ ~csHasChanges(C, ex)
                ny == ey = NoId \/ ~csHasChanges(C, ey)
            IN (nx /\ ny) \/ (~nx /\ ~ny /\ SameChanges(C, ex, ey))
  ELSE \A name \in PropNames :
         LET ex == C[x].changes[name]
             ey == C[y].changes[name]
             nx == ex.kind = "none" \/ ~entryHasChanges(C, ex)
             ny == ey.kind = "none" \/ ~entryHasChanges(C, ey)
         IN \/ nx /\ ny
            \/ ex.kind = "replace" /\ ex = ey
            \/ /\ ~nx /\ ~ny /\ ex.kind = "cset" /\ ey.kind = "cset"
               /\ SameChanges(C, ex.id, ey.id)

\* C5: for a property or element key for which A has no entry, the entry of
\* A.compose(B) is exactly the entry of B (none where B has none), also after
\* the primitive changes of B were prepared against the result; and when A
\* has no changes the result describes the changes of B.
C5_OnlyTouchedByB ==
  Composed =>
    /\ cs[last.a].kind = "list" =>
         \A k \in Elems :
           cs[last.a].byKey[k] = NoId =>
             cs[ResultOf].byKey[k] = cs[last.b].byKey[k]
    /\ cs[last.a].kind = "complex" =>
         \A name \in PropNames :
           cs[last.a].changes[name].kind = "none" =>
             cs[ResultOf].changes[name] = cs[last.b].changes[name]
    /\ ~csHasChanges(cs, last.a) => SameChanges(cs, ResultOf, last.b)

\* C6: compose returns a new, read-only changeset and changes neither A nor
\* B, nor any other changeset, nor the version counter and the ChangeRef
\* records of the transaction.
C6_ComposeReadOnly ==
  [][last'.op = "compose" =>
       /\ txn' = txn
       /\ \A id \in CsIds : id[1] # ComposeTxn => cs'[id] = cs[id]
       /\ last'.outcome = "ok" =>
            /\ cs'[ResultId(cs[last'.a].target)].exists
            /\ cs'[ResultId(cs[last'.a].target)].readOnly]_vars

\* A list compose that prepared an Add of an element whose ambient changeset
\* exists.
C6_Witness ==
  /\ Composed
  /\ cs[last.a].kind = "list"
  /\ \E i \in 1..Len(cs[last.b].prims) :
       /\ cs[last.b].prims[i].type = "add"
       /\ csetOf(Work, cs[last.b].prims[i].elems[1]) # NoId

\* The argument b of the last compose breaks a precondition of compose.
BreaksPrecondition ==
  \/ last.b = NoId
  \/ cs[last.b].kind # cs[last.a].kind
  \/ last.b = last.a
  \/ cs[last.b].target # cs[last.a].target
  \/ cs[last.b].targetVersion < cs[last.a].targetVersion

NoResult == \A id \in CsIds : id[1] = ComposeTxn => ~cs[id].exists

\* C7: compose fails with ArgumentInvalid, and returns no changeset, exactly
\* when the argument is not a changeset of the receiver's kind, is the
\* receiver, has another target or a lower targetVersion; with an equal
\* targetVersion it succeeds.
C7_ComposeArgumentInvalid ==
  last.op = "compose" =>
    IF BreaksPrecondition
    THEN last.outcome = "ArgumentInvalid" /\ NoResult
    ELSE last.outcome = "ok" /\ cs[ResultOf].exists

\* A compose refused for the lower targetVersion of its argument.
C7_Witness ==
  /\ last.op = "compose"
  /\ last.outcome = "ArgumentInvalid"
  /\ last.b # NoId
  /\ last.b # last.a
  /\ cs[last.b].kind = cs[last.a].kind
  /\ cs[last.b].target = cs[last.a].target
  /\ cs[last.b].targetVersion < cs[last.a].targetVersion

\* ---------------------------------------------------------------- set: adds and flags
\* The changes the examined call appended to its changeset.
NewPrimsOf(l) == SubSeq(cs[l.a].prims, l.nprims + 1, Len(cs[l.a].prims))

IsAdd(prim) == prim.type = "add"

\* The elements of the fragment that the list does not hold, in fragment order.
RECURSIVE NewElems(_, _)
NewElems(fragment, elems) ==
  IF fragment = <<>> THEN <<>>
  ELSE IF \A i \in 1..Len(elems) : KeyOf(elems[i]) # KeyOf(fragment[1])
       THEN <<fragment[1]>> \o NewElems(Tail(fragment), elems)
       ELSE NewElems(Tail(fragment), elems)

\* The positions (from 0) of the elements that a set with remove takes out.
RemovedPositions(l) ==
  IF l.remove
  THEN {p \in 0..(Len(l.before) - 1) :
          \A k \in 1..Len(l.fragment) : KeyOf(l.fragment[k]) # KeyOf(l.before[p + 1])}
  ELSE {}

\* The index asked for, clamped, less the removals at positions before it.
CorrectedIndex(l) ==
  setIndex(l.index, Len(l.before)) -
    Cardinality({p \in RemovedPositions(l) : p < setIndex(l.index, Len(l.before))})

AddSet(l) == l.op = "set" /\ l.outcome = "ok" /\ l.add

\* C11: a set with add records one Add for the run of new elements (none
\* when nothing is new), at the index asked for (default: the end) corrected
\* for the removals before it.
C11_AddRuns ==
  AddSet(last) =>
    /\ CountType(NewPrimsOf(last), "add") =
         (IF NewElems(last.fragment, last.before) = <<>> THEN 0 ELSE 1)
    /\ \A i \in 1..Len(NewPrimsOf(last)) :
         IsAdd(NewPrimsOf(last)[i]) =>
           NewPrimsOf(last)[i].index = CorrectedIndex(last)

\* C12: a set records no Add when add is false, no Remove when remove is
\* false and no Move when move is false; with every flag false it records
\* nothing.
C12_FlagsPermit ==
  last.op = "set" =>
    /\ ~last.add => CountType(NewPrimsOf(last), "add") = 0
    /\ ~last.remove => CountType(NewPrimsOf(last), "remove") = 0
    /\ ~last.move => CountType(NewPrimsOf(last), "move") = 0
    /\ (~last.add /\ ~last.remove /\ ~last.move) =>
         /\ NewPrimsOf(last) = <<>>
         /\ txn.version = 0

\* A set without move, of a fragment in another order than the list, that
\* recorded changes of the classes that were permitted.
C12_Witness ==
  /\ last.op = "set" /\ last.outcome = "ok"
  /\ last.add /\ last.remove /\ ~last.move
  /\ last.before = <<"a", "b", "c">> /\ last.fragment = <<"b", "a">>
  /\ Len(NewPrimsOf(last)) = 1

\* ---------------------------------------------------------------- remove, removeAt, move
\* The positions (from 0) of the elements of the list that the fragment
\* refers to, by key.
Referenced(fragment, elems) ==
  {p \in 0..(Len(elems) - 1) :
     \E k \in 1..Len(fragment) : KeyOf(fragment[k]) = KeyOf(elems[p + 1])}

\* The elements of a list at the positions outside a set, in order.
RECURSIVE Without(_, _, _)
Without(elems, positions, p) ==
  IF p >= Len(elems) THEN <<>>
  ELSE (IF p \in positions THEN <<>> ELSE <<elems[p + 1]>>) \o
       Without(elems, positions, p + 1)

\* The content a changeset projects when only its first n changes count.
ProjectedUpTo(c, n) ==
  applyFrom([c EXCEPT !.prims = SubSeq(c.prims, 1, n)], targetList, 0).elems

\* Each change the call appended is a Remove that takes, from the content
\* projected just before it, exactly the elements it holds.
ValidRemoves(l) ==
  \A i \in 1..Len(NewPrimsOf(l)) :
    LET prim == NewPrimsOf(l)[i]
        elems == ProjectedUpTo(cs[l.a], l.nprims + i - 1)
    IN /\ prim.type = "remove"
       /\ prim.index >= 0 /\ prim.index + Len(prim.elems) <= Len(elems)
       /\ \A k \in 1..Len(prim.elems) :
            KeyOf(prim.elems[k]) = KeyOf(elems[prim.index + k])

\* C13: remove(fragment) records one Remove per maximal run of adjacent
\* positions of the elements it refers to, from the highest run to the
\* lowest, each at an index that is valid when it is applied, and nothing
\* when no element of the fragment is in the list; afterwards the list
\* projects the other elements, in order.
C13_RemoveRuns ==
  (last.op = "remove" /\ last.outcome = "ok") =>
    /\ Len(NewPrimsOf(last)) = Runs(Referenced(last.fragment, last.before))
    /\ ValidRemoves(last)
    /\ \A i \in 2..Len(NewPrimsOf(last)) :
         NewPrimsOf(last)[i].index < NewPrimsOf(last)[i - 1].index
    /\ ProjectedOf(cs[last.a]) =
         Without(last.before, Referenced(last.fragment, last.before), 0)

\* The arguments of the examined removeAt: count defaults to 1.
StartOf(l) == l.index[1]

CountOf(l) == IF l.count = <<>> THEN 1 ELSE l.count[1]

\* A negative start counts from the end, and not from before the list.
ClampedStart(l) ==
  IF StartOf(l) < 0 THEN Max(0, Len(l.before) + StartOf(l)) ELSE StartOf(l)

OutOfRange(l) == StartOf(l) >= Len(l.before) \/ CountOf(l) < 0

\* C14: removeAt(start, count) records nothing when start is at or beyond
\* the length or count is negative; otherwise it records one Remove, at the
\* clamped start, of the elements at start .. min(start + count, length) - 1.
C14_RemoveAt ==
  (last.op = "removeAt" /\ last.outcome = "ok") =>
    IF OutOfRange(last)
    THEN NewPrimsOf(last) = <<>> /\ ProjectedOf(cs[last.a]) = last.before
    ELSE /\ Len(NewPrimsOf(last)) = 1
         /\ NewPrimsOf(last)[1].type = "remove"
         /\ NewPrimsOf(last)[1].index = ClampedStart(last)
         /\ NewPrimsOf(last)[1].elems =
              SubSeq(last.before, ClampedStart(last) + 1,
                     Min(ClampedStart(last) + CountOf(last), Len(last.before)))
         /\ ProjectedOf(cs[last.a]) =
              Without(last.before,
                      ClampedStart(last)..
                        (Min(ClampedStart(last) + CountOf(last), Len(last.before)) - 1),
                      0)

\* A removeAt from the end, of more elements than there are after the start,
\* over a change that is pending.
C14_Witness ==
  /\ last.op = "removeAt" /\ last.outcome = "ok"
  /\ last.nprims > 0 /\ Len(last.before) = 3
  /\ StartOf(last) = -1 /\ CountOf(last) = 2
  /\ Len(NewPrimsOf(last)) = 1
  /\ Len(NewPrimsOf(last)[1].elems) = 1

\* The index a move asks for, clamped to 0 .. length.
ClampedNew(l) ==
  IF l.index[1] < 0 THEN Max(0, Len(l.before) + l.index[1])
  ELSE Min(l.index[1], Len(l.before))

\* The position (from 0) of the element of the list with the key of the
\* element given; none when the list does not hold it.
PositionsOf(l) ==
  {p \in 0..(Len(l.before) - 1) : KeyOf(l.before[p + 1]) = KeyOf(l.value)}

\* C15: move(elementSpec, newIndex) records nothing for an element that is
\* not in the list or that is at the clamped index already; otherwise it
\* records one Move from the element's index to newIndex clamped to
\* 0 .. length (negative: from the end).
C15_Move ==
  (last.op = "move" /\ last.outcome = "ok") =>
    IF PositionsOf(last) = {} \/ ClampedNew(last) \in PositionsOf(last)
    THEN NewPrimsOf(last) = <<>>
    ELSE /\ Len(NewPrimsOf(last)) = 1
         /\ NewPrimsOf(last)[1].type = "move"
         /\ NewPrimsOf(last)[1].index \in PositionsOf(last)
         /\ NewPrimsOf(last)[1].indexNew = ClampedNew(last)
         /\ NewPrimsOf(last)[1].indexNew \in 0..Len(last.before)
         /\ NewPrimsOf(last)[1].index # NewPrimsOf(last)[1].indexNew

\* A move from the end of a list that a pending change has reordered.
C15_Witness ==
  /\ last.op = "move" /\ last.outcome = "ok"
  /\ last.nprims > 0 /\ last.before = <<"c", "b", "a">>
  /\ last.value = "a" /\ last.index = <<-4>>
  /\ Len(NewPrimsOf(last)) = 1
  /\ NewPrimsOf(last)[1].index = 2 /\ NewPrimsOf(last)[1].indexNew = 0

\* ---------------------------------------------------------------- clear and apply
\* What the changes from the last Clear onward make of an empty list.
FromLastClear(c) ==
  applyPrims(c.prims, c.lastClearIndex + 1, [elems |-> <<>>, keys |-> {}])

\* A changeset that holds a Clear projects what its changes from the last
\* Clear onward give, whatever the list held.
ClearedFrom(c) ==
  c.lastClearIndex >= 0 =>
    /\ c.lastClearIndex < Len(c.prims)
    /\ c.prims[c.lastClearIndex + 1].type = "clear"
    /\ projectedMock(c) = FromLastClear(c)
    /\ applyFrom(c, targetList, 0) = FromLastClear(c)

\* C16: clear() on an empty list records nothing; otherwise it sets
\* lastClearIndex to the number of changes held before and appends one Clear,
\* after which the list projects no element; from then on what is projected,
\* and what a commit applies, is what the changes from the last Clear onward
\* give.
C16_Clear ==
  [][/\ (last'.op = "clear" /\ last'.outcome = "ok") =>
          IF last'.before = <<>>
          THEN /\ cs'[last'.a].prims = cs[last'.a].prims
               /\ cs'[last'.a].lastClearIndex = cs[last'.a].lastClearIndex
          ELSE /\ cs'[last'.a].lastClearIndex = Len(cs[last'.a].prims)
               /\ Len(cs'[last'.a].prims) = Len(cs[last'.a].prims) + 1
               /\ SubSeq(cs'[last'.a].prims, 1, Len(cs[last'.a].prims)) = cs[last'.a].prims
               /\ cs'[last'.a].prims[Len(cs'[last'.a].prims)].type = "clear"
               /\ projectedMock(cs'[last'.a]).elems = <<>>
     /\ \A id \in ListIds : cs'[id].status = "open" => ClearedFrom(cs'[id])
     /\ (last'.op = "commit" /\ cs[CurId(LIST)].lastClearIndex >= 0) =>
          /\ store'.elems = FromLastClear(cs[CurId(LIST)]).elems
          /\ store'.keys = FromLastClear(cs[CurId(LIST)]).keys]_vars

\* A list was cleared over a pending change.
C16_Witness ==
  /\ cs[<<1, LIST>>].exists /\ cs[<<1, LIST>>].status = "open"
  /\ cs[<<1, LIST>>].lastClearIndex = 1
  /\ Len(cs[<<1, LIST>>].prims) = 2
  /\ last.op = "clear" /\ last.before # <<>>

\* C17: a commit leaves in the list the elements and keys that its changeset
\* projected just before, and the two paths of _apply agree: the arrays of
\* the projected mock are what the replay of the primitive changes from
\* lastClearIndex gives.
C17_ApplyIsProjection ==
  [][(last'.op = "commit" /\ cs[CurId(LIST)].exists) =>
       /\ store'.elems = projectedMock(cs[CurId(LIST)]).elems
       /\ store'.keys = projectedMock(cs[CurId(LIST)]).keys
       /\ projectedMock(cs[CurId(LIST)]) = applyFrom(cs[CurId(LIST)], targetList, 0)
       /\ cs[CurId(LIST)].projMock =>
            mockView(refreshMock(cs[CurId(LIST)])) =
              applyFrom(cs[CurId(LIST)], targetList, 0)]_vars

\* The list [a] was committed as [a, b] by a changeset that held the Add of
\* b at 1 after a Sort, so that its mock was in use.
C17_Witness ==
  /\ last.op = "commit"
  /\ store.elems = <<"a", "b">>
  /\ cs[<<1, LIST>>].status = "applied"
  /\ Len(cs[<<1, LIST>>].prims) = 2
  /\ cs[<<1, LIST>>].prims[1].type = "sort"
  /\ cs[<<1, LIST>>].prims[2].type = "add"
  /\ cs[<<1, LIST>>].prims[2].index = 1

\* ---------------------------------------------------------------- failing calls
\* The call threw.
Failed(l) == l.outcome \in {"TypeError", "InvalidOperation", "ArgumentInvalid"}

\* The log of a changeset: its primitive changes, property entries, child
\* changesets and lastClearIndex.
SameLog(c, d) ==
  /\ c.prims = d.prims
  /\ c.changes = d.changes
  /\ c.byKey = d.byKey
  /\ c.lastClearIndex = d.lastClearIndex

\* C18: a call of set, remove, removeAt, move, sort, clear or compose that
\* fails leaves every changeset with the log it had, and the transaction at
\* the version it had.
C18_AllOrNothing ==
  [][(last'.op \in ExaminedOps \cup {"compose"} /\ Failed(last')) =>
       /\ txn'.version = txn.version
       /\ \A id \in CsIds :
            (last'.op = "compose" => id[1] # ComposeTxn) =>
              SameLog(cs'[id], cs[id])]_vars

\* C19: set, remove, removeAt, move, sort and clear on a changeset that was
\* applied or cancelled, or that is the read-only result of a compose, fail
\* with InvalidOperation and leave the changeset and the transaction as
\* they were.
C19_NotWritable ==
  [][(/\ last'.op \in ExaminedOps
      /\ cs[last'.a].exists
      /\ (cs[last'.a].status # "open" \/ cs[last'.a].readOnly)) =>
       /\ last'.outcome = "InvalidOperation"
       /\ cs' = cs
       /\ txn' = txn]_vars

\* A sort was refused on the result of composing two changesets that hold
\* changes, the first of them applied.
C19_Witness ==
  /\ last.op = "sort" /\ last.outcome = "InvalidOperation"
  /\ last.a = <<ComposeTxn, LIST>>
  /\ cs[last.a].readOnly /\ Len(cs[last.a].prims) > 1
  /\ cs[<<1, LIST>>].status = "applied"

\* ---------------------------------------------------------------- read-only lists
\* The keys of a sequence of elements.
KeysIn(elems) == [i \in 1..Len(elems) |-> KeyOf(elems[i])]

\* Would the examined call record a change on a list that can be edited?
WouldRecord(l) ==
  CASE l.op = "set" -> KeysIn(l.before) # KeysIn(l.fragment)
    [] l.op = "remove" -> Referenced(l.fragment, l.before) # {}
    [] l.op = "removeAt" -> ~OutOfRange(l)
    [] l.op = "move" -> PositionsOf(l) # {} /\ ClampedNew(l) \notin PositionsOf(l)
    [] l.op = "sort" -> TRUE
    [] l.op = "clear" -> l.before # <<>>
    [] OTHER -> FALSE

AmbientValueOf(complex, name) ==
  IF txn.open /\ cs[CurId(complex)].exists
     /\ cs[CurId(complex)].changes[name].kind = "replace"
  THEN cs[CurId(complex)].changes[name].value
  ELSE store.vals[complex][name]

AmbientStateOf(complex, name) ==
  IF txn.open /\ cs[CurId(complex)].exists
     /\ cs[CurId(complex)].changes[name].kind = "replace"
  THEN cs[CurId(complex)].changes[name].state
  ELSE store.sts[complex][name]

\* The call asks for an effective change: forced, or another state, or a
\* value that is not equal to the ambient one.
Effective(l) ==
  \/ l.force
  \/ (IF l.value = Null THEN PROP_VALUE_DEFAULT ELSE PROP_VALUE_SPECIFIED)
       # AmbientStateOf(l.target, l.name)
  \/ KeyOf(IF l.value = Null THEN DefaultValue(l.name) ELSE l.value)
       # KeyOf(AmbientValueOf(l.target, l.name))

\* C21: setProperty on a read-only property fails with TypeError whenever the
\* request is an effective change (it differs from the ambient value/state or
\* forceReplace is set) and then leaves the changeset and the transaction
\* untouched; a request equal to the ambient value/state is a silent no-op.
C21_ReadOnlyProperty ==
  [][(last'.op = "setProperty" /\ isReadOnlyProp(last'.name))
     => /\ cs' = cs
        /\ txn' = txn
        /\ last'.outcome = (IF Effective(last') THEN "TypeError" ELSE "noop")]_vars

C21_Witness ==
  /\ last.op = "setProperty"
  /\ isReadOnlyProp(last.name)
  /\ last.force
  /\ last.value = Null
  /\ last.outcome = "TypeError"
  /\ \E name \in PropNames : cs[CurId(ROOT)].changes[name].kind = "replace"

\* ---------------------------------------------------------------- the Replace of a property
\* Every Replace of the open transaction holds the committed value of its
\* property as its old value.
ReplacesKeepInitial ==
  txn.open =>
    \A t \in ComplexTargets : \A name \in PropNames :
      (cs[CurId(t)].exists /\ cs[CurId(t)].changes[name].kind = "replace")
        => cs[CurId(t)].changes[name].valueOld = store.vals[t][name]

\* The entry of the property named by a call, before and after the call.
EntryBefore(l) == cs[CurId(l.target)].changes[l.name]

\* The call recorded or updated a Replace that holds the state asked for and
\* a value equal to the one asked for.
RecordsLatest(l, entry) ==
  /\ entry.kind = "replace"
  /\ entry.state = (IF l.value = Null THEN PROP_VALUE_DEFAULT ELSE PROP_VALUE_SPECIFIED)
  /\ KeyOf(entry.value) = KeyOf(IF l.value = Null THEN DefaultValue(l.name) ELSE l.value)

\* The call updates a Replace with an equal value and another state.
OnlyStateDiffers(l) ==
  /\ l.op = "setProperty"
  /\ l.outcome = "updated"
  /\ EntryBefore(l).kind = "replace"
  /\ KeyOf(EntryBefore(l).value) = KeyOf(IF l.value = Null THEN DefaultValue(l.name) ELSE l.value)
  /\ EntryBefore(l).state # (IF l.value = Null THEN PROP_VALUE_DEFAULT ELSE PROP_VALUE_SPECIFIED)

\* C22 (as stated): a property has at most one Replace, whose old value is
\* the initial value and whose new value/state are those of the latest
\* effective set; an update keeps the previously recorded value object
\* whenever the new value is equal and only the state differs.
C22_KeepsValueObject ==
  [][/\ ReplacesKeepInitial'
     /\ (last'.op = "setProperty" /\ last'.outcome \in {"new", "updated"})
          => RecordsLatest(last', cs'[CurId(last'.target)].changes[last'.name])
     /\ OnlyStateDiffers(last')
          => cs'[CurId(last'.target)].changes[last'.name].value
               = EntryBefore(last').value]_vars

\* C22 (amended): as above, but the value object is kept only by a call
\* without forceReplace; a forced update records the value it was given.
C22_KeepsValueObjectUnlessForced ==
  [][/\ ReplacesKeepInitial'
     /\ (last'.op = "setProperty" /\ last'.outcome \in {"new", "updated"})
          => RecordsLatest(last', cs'[CurId(last'.target)].changes[last'.name])
     /\ OnlyStateDiffers(last')
          => /\ cs'[CurId(last'.target)].changes[last'.name].valueOld
                  = EntryBefore(last').valueOld
             /\ cs'[CurId(last'.target)].changes[last'.name].value
                  = (IF last'.force
                     THEN (IF last'.value = Null THEN DefaultValue(last'.name)
                           ELSE last'.value)
                     ELSE EntryBefore(last').value)]_vars

C22_Witness ==
  /\ last.op = "setProperty"
  /\ last.outcome = "updated"
  /\ last.value = Null
  /\ ~last.force
  /\ cs[CurId(ROOT)].changes["q"].kind = "replace"
  /\ cs[CurId(ROOT)].changes["q"].value = "v1b"
  /\ cs[CurId(ROOT)].changes["q"].state = PROP_VALUE_DEFAULT
  /\ cs[CurId(ROOT)].changes["q"].valueOld = "v2"

\* ---------------------------------------------------------------- transaction versions
\* The Replaces of the open transaction, by target and property.
ReplacesHeld ==
  {x \in ComplexTargets \X PropNames :
     cs[CurId(x[1])].exists /\ cs[CurId(x[1])].changes[x[2]].kind = "replace"}

\* No two primitive changes of the open transaction share a version.
StampsDistinct ==
  txn.open =>
    /\ \A x, y \in ReplacesHeld :
         x # y => cs[CurId(x[1])].changes[x[2]].tv # cs[CurId(y[1])].changes[y[2]].tv
    /\ \A i, j \in 1..Len(cs[CurId(LIST)].prims) :
         i # j => cs[CurId(LIST)].prims[i].tv # cs[CurId(LIST)].prims[j].tv
    /\ \A x \in ReplacesHeld : \A i \in 1..Len(cs[CurId(LIST)].prims) :
         cs[CurId(x[1])].changes[x[2]].tv # cs[CurId(LIST)].prims[i].tv

\* The call recorded, updated or removed a Replace.
ReplaceMutations(l) ==
  IF l.op = "setProperty" /\ l.outcome \in {"new", "updated", "removed"}
  THEN 1 ELSE 0

\* C23: the version counter of the transaction never decreases and every
\* mutation takes exactly one version: a step takes as many versions as it
\* appends list changes and records, updates or removes Replaces; each change
\* is stamped with the version it took, which becomes the transactionVersion
\* of its changeset; no changeset's transactionVersion decreases and no two
\* primitive changes share a version.
C23_Versions ==
  [][(txn.open /\ txn'.open) =>
       /\ txn'.version >= txn.version
       /\ txn'.version = txn.version + ReplaceMutations(last')
                           + Len(cs'[CurId(LIST)].prims) - Len(cs[CurId(LIST)].prims)
       /\ \A k \in (Len(cs[CurId(LIST)].prims) + 1)..Len(cs'[CurId(LIST)].prims) :
            cs'[CurId(LIST)].prims[k].tv = txn.version + k - Len(cs[CurId(LIST)].prims)
       /\ Len(cs'[CurId(LIST)].prims) > Len(cs[CurId(LIST)].prims)
            => cs'[CurId(LIST)].txnVersion = txn'.version
       /\ ReplaceMutations(last') = 1
            => cs'[CurId(last'.target)].txnVersion = txn'.version
       /\ (last'.op = "setProperty" /\ last'.outcome \in {"new", "updated"})
            => cs'[CurId(last'.target)].changes[last'.name].tv = txn'.version
       /\ \A id \in CsIds :
            (id[1] = txn.id /\ cs[id].exists)
              => cs'[id].txnVersion >= cs[id].txnVersion
       /\ StampsDistinct']_vars

C23_Witness ==
  /\ txn.open
  /\ txn.version = 4
  /\ last.op = "setProperty"
  /\ last.outcome = "removed"
  /\ ReplacesHeld # {}
  /\ Len(cs[CurId(LIST)].prims) = 1
  /\ cs[CurId(last.target)].txnVersion = 4

\* ---------------------------------------------------------------- Replace or nested changeset
\* The call named by l is a setProperty of the property name of target t.
SetsProperty(l, t, name) ==
  l.op = "setProperty" /\ l.target = t /\ l.name = name

\* C24: a property has one entry, a Replace or a nested changeset, never
\* both. A Replace stays when a step other than a set of its property is
\* taken, in particular when the changeset of its value is created; a set
\* that records a Replace for a property that holds a nested changeset puts
\* the Replace in its place.
C24_ReplaceOrNested ==
  [][(txn.open /\ txn'.open) =>
       \A t \in ComplexTargets : \A name \in PropNames :
         /\ (/\ cs[CurId(t)].changes[name].kind = "replace"
             /\ ~SetsProperty(last', t, name))
              => cs'[CurId(t)].changes[name] = cs[CurId(t)].changes[name]
         /\ (/\ cs[CurId(t)].changes[name].kind = "cset"
             /\ SetsProperty(last', t, name))
              => /\ last'.outcome \in {"new", "noop"}
                 /\ last'.outcome = "new"
                      => /\ cs'[CurId(t)].changes[name].kind = "replace"
                         /\ cs'[CurId(t)].changes[name].id = NoId
                 /\ last'.outcome = "noop"
                      => cs'[CurId(t)].changes[name] = cs[CurId(t)].changes[name]
         /\ cs'[CurId(t)].changes[name].kind = "cset"
              => /\ cs'[cs'[CurId(t)].changes[name].id].exists
                 /\ cs'[cs'[CurId(t)].changes[name].id].target
                      = store.vals[t][name]]_vars

\* The changeset of the element a was created while root.p held a Replace
\* with the value a: the Replace is still there.
C24_Witness ==
  /\ txn.open
  /\ last.op = "setProperty" /\ last.target = "a" /\ last.outcome = "new"
  /\ cs[CurId(ROOT)].changes["p"].kind = "replace"
  /\ cs[CurId(ROOT)].changes["p"].value = "a"
  /\ cs[CurId(ROOT)].changes["p"].tv = 1
  /\ cs[CurId("a")].txnVersion = 2

\* ---------------------------------------------------------------- ambient value and state
\* The value and the state a property would have if the changeset of its
\* target were committed as it is.
CommittedValueAsIs(t, name) ==
  IF cs[CurId(t)].exists
  THEN complexApplyValues(cs, CurId(t), store.vals[t])[name]
  ELSE store.vals[t][name]

CommittedStateAsIs(t, name) ==
  IF cs[CurId(t)].exists
  THEN complexApplyStates(cs, CurId(t), store.sts[t])[name]
  ELSE store.sts[t][name]

\* C25: the ambient value/state that setProperty compares a request against
\* is the value and state the property would have if the changeset were
\* committed as it is: those of the Replace when there is one, else the
\* initial ones, also when the property holds a nested changeset.
C25_AmbientIsCommittedAsIs ==
  txn.open =>
    \A t \in {ROOT, "a"} : \A name \in PropsOf(t) :
      /\ valueAmbient(Work, t, name) = AmbientValueOf(t, name)
      /\ stateAmbient(Work, t, name) = AmbientStateOf(t, name)
      /\ valueAmbient(Work, t, name) = CommittedValueAsIs(t, name)
      /\ stateAmbient(Work, t, name) = CommittedStateAsIs(t, name)

\* ---------------------------------------------------------------- hasChanges
\* The changeset of an element holds a Replace (its properties are simple).
HoldsReplace(id) ==
  \E name \in PropNames : cs[id].changes[name].kind = "replace"

\* A changeset holds a primitive change, or references a nested changeset
\* that does.
HoldsChanges(id) ==
  IF cs[id].kind = "list"
  THEN \/ Len(cs[id].prims) > 0
       \/ \E k \in Elems : cs[id].byKey[k] # NoId /\ HoldsReplace(cs[id].byKey[k])
  ELSE \/ HoldsReplace(id)
       \/ \E name \in PropNames :
            /\ cs[id].changes[name].kind = "cset"
            /\ HoldsReplace(cs[id].changes[name].id)

\* C26: hasChanges of a changeset is true if and only if it holds a primitive
\* change (a Replace; any Add, Remove, Move, Sort or Clear) or references a
\* nested changeset whose hasChanges is true; a changeset that references
\* only nested changesets that were fully undone reports false.
C26_HasChanges ==
  \A id \in CsIds :
    (cs[id].exists /\ id[1] # ComposeTxn)
      => (csHasChanges(cs, id) <=> HoldsChanges(id))

\* The changes of a were undone: root and the list reference a's changeset
\* and report no changes.
C26_Witness ==
  /\ txn.open
  /\ last.op = "setProperty" /\ last.target = "a" /\ last.outcome = "removed"
  /\ cs[CurId(ROOT)].changes["p"] = Nested(CurId("a"))
  /\ cs[CurId(LIST)].byKey["a"] = CurId("a")
  /\ cs[CurId(LIST)].exists /\ Len(cs[CurId(LIST)].prims) = 0
  /\ ~csHasChanges(cs, CurId(ROOT))
  /\ ~csHasChanges(cs, CurId(LIST))
  /\ ~csHasChanges(cs, CurId("a"))

\* ---------------------------------------------------------------- apply of a ComplexChangeset
\* C27: when the changesets are applied, every property with a Replace has
\* the Replace's new value and state on the target; every property whose
\* entry is a nested changeset with changes is Specified on the target, with
\* its value kept; a property whose entry is a nested changeset without
\* changes, and every property without an entry, keeps its value and state.
C27_Apply ==
  [][last'.op = "commit" =>
       \A t \in ComplexTargets : \A name \in PropsOf(t) :
         IF cs[CurId(t)].exists /\ cs[CurId(t)].changes[name].kind = "replace"
         THEN /\ store'.vals[t][name] = cs[CurId(t)].changes[name].value
              /\ store'.sts[t][name] = cs[CurId(t)].changes[name].state
         ELSE IF /\ cs[CurId(t)].exists
                 /\ cs[CurId(t)].changes[name].kind = "cset"
                 /\ HoldsReplace(cs[CurId(t)].changes[name].id)
         THEN /\ store'.vals[t][name] = store.vals[t][name]
              /\ store'.sts[t][name] = PROP_VALUE_SPECIFIED
         ELSE /\ store'.vals[t][name] = store.vals[t][name]
              /\ store'.sts[t][name] = store.sts[t][name]]_vars

\* Applied: p, Default before, is Specified by the changes nested in a, and
\* q has the value of its Replace.
C27_Witness ==
  /\ last.op = "commit"
  /\ cs[<<1, ROOT>>].status = "applied"
  /\ cs[<<1, ROOT>>].changes["p"] = Nested(<<1, "a">>)
  /\ store.pDefault = "a"
  /\ store.vals[ROOT]["p"] = "a"
  /\ store.sts[ROOT]["p"] = PROP_VALUE_SPECIFIED
  /\ cs[<<1, ROOT>>].changes["q"].kind = "replace"
  /\ store.vals[ROOT]["q"] = cs[<<1, ROOT>>].changes["q"].value
  /\ store.vals["a"]["x"] = "v1"

\* ---------------------------------------------------------------- clearing the changes
\* The changesets that a changeset references as nested.
NestedOf(id) ==
  IF cs[id].kind = "list"
  THEN {cs[id].byKey[k] : k \in {e \in Elems : cs[id].byKey[e] # NoId}}
  ELSE {cs[id].changes[name].id :
          name \in {n \in PropNames : cs[id].changes[n].kind = "cset"}}

\* C28: _clearChanges undoes all the changes without applying them: after
\* it, hasChanges is false for the changeset and for every nested changeset
\* it referenced, the committed content is untouched, and no element has a
\* net reference gained or lost from the target of the changeset.
C28_ClearChanges ==
  [][last'.op = "clearChanges" =>
       /\ ~csHasChanges(cs', last'.a)
       /\ \A child \in NestedOf(last'.a) : ~csHasChanges(cs', child)
       /\ store' = store
       /\ \A e \in Elems : txn'.crefs[e][last'.target] = 0]_vars

\* ---------------------------------------------------------------- all or nothing
\* C29: a setProperty edit is applied in full or discarded in full: when the
\* recording of the new Replace fails (its _prepare throws), no Replace for
\* the property remains in the changeset, the reference counts are as before
\* and the scope entered for the edit has been exited (same scope depth).
C29_EditIsAtomic ==
  [][last'.outcome = "Error" =>
       /\ cs'[CurId(last'.target)].changes[last'.name].kind # "replace"
       /\ txn'.crefs = txn.crefs
       /\ txn'.depth = txn.depth]_vars

\* ---------------------------------------------------------------- the projected mock
\* A fresh copy of the committed elements, with every primitive change from
\* max(lastClearIndex, 0) applied.
ReplayOf(c) ==
  applyPrims(c.prims, Max(c.lastClearIndex, 0) + 1, targetList)

\* The cached mock holds what the changes it counted make of the committed
\* list: none of them is missing and none was applied twice.
CacheCounted(c) ==
  c.projMock =>
    /\ c.mockCount <= Len(c.prims)
    /\ mockView(c) = applyPrims(SubSeq(c.prims, 1, c.mockCount), 1, targetList)

\* C31: after any sequence of set, remove, removeAt, move, sort and clear
\* calls, what the incrementally refreshed mock projects is what a fresh
\* copy of the committed elements gives when every primitive change from
\* max(lastClearIndex, 0) is applied to it; the cached mock holds exactly
\* the changes it counted, none missed and none applied twice.
C31_MockIsReplay ==
  \A id \in ListIds :
    (cs[id].exists /\ cs[id].status = "open") =>
      /\ projectedMock(cs[id]) = ReplayOf(cs[id])
      /\ CacheCounted(cs[id])

\* A mock that counted one change is behind a changeset that holds two: the
\* next read applies the second change only.
C31_Witness ==
  /\ cs[<<1, LIST>>].exists /\ cs[<<1, LIST>>].status = "open"
  /\ cs[<<1, LIST>>].projMock
  /\ cs[<<1, LIST>>].mockCount = 1
  /\ Len(cs[<<1, LIST>>].prims) = 2
  /\ cs[<<1, LIST>>].prims[2].type = "add"
  /\ last.op \in ExaminedOps

\* ---------------------------------------------------------------- net order
\* The changesets a parent changeset holds: the nested changesets of its
\* properties, or the changesets of its map by key.
HeldBy(id) ==
  IF cs[id].kind = "list"
  THEN {cs[id].byKey[e] : e \in Elems} \ {NoId}
  ELSE {cs[id].changes[n].id : n \in {m \in PropNames : cs[id].changes[m].kind = "cset"}}

\* The changesets of the elements that the target of a parent changeset
\* references in the transaction.
ReferencedBy(id) ==
  {<<id[1], e>> : e \in {x \in Elems : /\ cs[<<id[1], x>>].exists
                                       /\ id[2] \in AmbientRefs(Work, x)}}

\* The writable changesets of containers.
WritableParents ==
  {id \in CsIds : id[2] \in Containers /\ cs[id].exists /\ isWritable(cs[id])}

\* The order of a changeset, computed from the changesets of the containers
\* that reference its target.
OrderFromScratch(id) ==
  IF \E P \in WritableParents : id \in ReferencedBy(P)
  THEN 1 + cs[CHOOSE P \in WritableParents :
                /\ id \in ReferencedBy(P)
                /\ \A Q \in WritableParents :
                     id \in ReferencedBy(Q) => cs[Q].netOrder <= cs[P].netOrder].netOrder
  ELSE 0

\* An element changeset lost the reference of a container in the step and
\* gained none.
Detached(id) ==
  /\ txn.open /\ txn'.open /\ txn'.id = txn.id
  /\ cs[id].exists /\ cs'[id].exists
  /\ AmbientRefs(Work, id[2])' \subseteq AmbientRefs(Work, id[2])
  /\ AmbientRefs(Work, id[2])' # AmbientRefs(Work, id[2])

\* C32: every changeset that a writable parent changeset holds, or whose
\* target the parent references, has a net order of at least the parent's
\* plus one, whether it was created under the parent or its element was
\* added to the parent's list or property; a changeset that is detached has
\* its net order recomputed from the parents that are left.
C32_NetOrder ==
  [][/\ \A P \in CsIds :
          (P[2] \in Containers /\ cs'[P].exists /\ isWritable(cs'[P])) =>
            \A child \in (HeldBy(P) \cup ReferencedBy(P))' :
              cs'[child].netOrder >= cs'[P].netOrder + 1
     /\ \A e \in Elems :
          Detached(<<txn.id, e>>) =>
            cs'[<<txn.id, e>>].netOrder = OrderFromScratch(<<txn.id, e>>)']_vars

\* ---------------------------------------------------------------- the map by key
\* C34: the map by key of a list changeset holds a changeset only under the
\* key of an element of the projected list, after any adds, removes and
\* clears, and after _clearChanges.
C34_MapHoldsListElements ==
  \A id \in ListIds :
    (cs[id].exists /\ cs[id].status = "open") =>
      \A e \in Elems :
        cs[id].byKey[e] # NoId =>
          e \in SeqToSet(projectedMock(cs[id]).elems)

\* ---------------------------------------------------------------- versions of parent and child
\* The parent changeset starts to hold the changeset of the element in a
\* step that edits: in the map by key of a list, or as the nested changeset
\* of p.
StartsToHold(P, e) ==
  /\ txn.open /\ txn'.open /\ txn'.id = txn.id
  /\ last'.op # "clearChanges"
  /\ cs'[P].exists /\ cs'[P].status = "open" /\ cs'[<<P[1], e>>].exists
  /\ IF P[2] = LIST
     THEN /\ cs'[P].byKey[e] = <<P[1], e>>
          /\ cs[P].byKey[e] = NoId
     ELSE /\ cs'[P].changes["p"] = Nested(<<P[1], e>>)
          /\ cs[P].changes["p"] # Nested(<<P[1], e>>)

\* The version of the parent when the step began: none before it exists.
VersionBefore(P) == IF cs[P].exists THEN cs[P].txnVersion ELSE 0

\* C33: when a parent changeset starts to hold a child changeset, whether
\* the child was just created under it or its element, which already had a
\* changeset, was added to the list, the transaction version of the child is
\* at least that of the parent.
C33_ChildVersionAtLeastParents ==
  [][\A P \in {CurId(ROOT), CurId(LIST)} : \A e \in Elems :
       StartsToHold(P, e) =>
         cs'[<<P[1], e>>].txnVersion >= VersionBefore(P)]_vars

\* ---------------------------------------------------------------- the pending view
\* C35: for every property, the value and the state that __getByName and
\* __getStateByName report before the commit are the value and the state
\* that the target holds after the changeset is applied, also when the entry
\* of the property is a nested changeset that has no changes.
C35_ViewIsOutcome ==
  [][last'.op = "commit" =>
       \A t \in {ROOT, "a"} :
         cs[CurId(t)].exists =>
           \A name \in PropsOf(t) :
             /\ store'.vals[t][name] = getByName(cs, CurId(t), name)
             /\ store'.sts[t][name] = getStateByName(cs, CurId(t), name)]_vars

\* ---------------------------------------------------------------- changes of the committed value
\* C36: when the committed value of p is an element that has pending changes
\* in the transaction and no Replace is recorded for p, hasChange(p) is true
\* on the changeset of the owner, also after p was set to another value and
\* set back to the committed one.
C36_NestedChangesShow ==
  txn.open =>
    \A e \in Elems :
      ( /\ store.vals[ROOT]["p"] = e
        /\ cs[CurId(e)].exists /\ csHasChanges(cs, CurId(e))
        /\ ~(cs[CurId(ROOT)].exists /\ cs[CurId(ROOT)].changes["p"].kind = "replace") )
      => (cs[CurId(ROOT)].exists /\ hasChange(cs, CurId(ROOT), "p"))

\* ---------------------------------------------------------------- well-formed changes
\* A change is well-formed for the content it is appended to: a Remove holds
\* exactly the elements found from its index on, an Add is placed within
\* 0 .. length, a Move takes its element from the position it holds to an
\* index within 0 .. length. Elements are told apart by key.
WellFormed(prim, elems) ==
  CASE prim.type = "remove" ->
         /\ prim.index >= 0
         /\ prim.index + Len(prim.elems) <= Len(elems)
         /\ \A k \in 1..Len(prim.elems) :
              KeyOf(prim.elems[k]) = KeyOf(elems[prim.index + k])
    [] prim.type = "add" ->
         prim.index >= 0 /\ prim.index <= Len(elems)
    [] prim.type = "move" ->
         /\ prim.index >= 0 /\ prim.index < Len(elems)
         /\ KeyOf(elems[prim.index + 1]) = KeyOf(prim.elems[1])
         /\ prim.indexNew >= 0 /\ prim.indexNew <= Len(elems)
    [] OTHER -> TRUE

\* Every change after the first n is well-formed for the content that the
\* changes before it give.
WellFormedFrom(c, n) ==
  \A i \in (n + 1)..Len(c.prims) :
    WellFormed(c.prims[i],
               applyPrims(SubSeq(c.prims, 1, i - 1), 1, targetList).elems)

\* C37: every primitive change that set, remove, removeAt or move appends is
\* well-formed for the list projected at the moment it is appended, also
\* when remove or move is given another instance of an element of the list.
C37_ChangesWellFormed ==
  [][(/\ txn.open /\ txn'.open
      /\ last'.op \in {"step", "set", "remove", "removeAt", "move"}
      /\ last'.outcome = "ok") =>
       WellFormedFrom(cs'[CurId(LIST)], Len(cs[CurId(LIST)].prims))]_vars

\* ---------------------------------------------------------------- set is idempotent
\* The elements of a fragment in the order they first appear, by key.
RECURSIVE FirstOfEach(_, _)
FirstOfEach(fragment, seen) ==
  IF fragment = <<>> THEN <<>>
  ELSE IF KeyOf(fragment[1]) \in seen THEN FirstOfEach(Tail(fragment), seen)
  ELSE <<fragment[1]>> \o
       FirstOfEach(Tail(fragment), seen \cup {KeyOf(fragment[1])})

\* The call left the log and the transaction version as they were.
NothingRecorded ==
  /\ cs'[CurId(LIST)].prims = cs[CurId(LIST)].prims
  /\ txn'.version = txn.version

\* C39: a set whose fragment holds the projected content in the same order,
\* also with an element listed more than once, and a set that repeats the
\* call before it, appends no primitive change and takes no transaction
\* version.
C39_SetIsIdempotent ==
  [][/\ (/\ last'.op \in {"set", "setAgain"} /\ last'.outcome = "ok"
         /\ FirstOfEach(last'.fragment, {}) = last'.before)
          => NothingRecorded
     /\ (last'.op = "setAgain" /\ last'.outcome = "ok") => NothingRecorded]_vars

\* ---------------------------------------------------------------- empty removes
\* The call is a removeAt of no element, or a remove of elements of which
\* none is in the list.
RemovesNothing(l) ==
  \/ /\ l.op = "removeAt"
     /\ CountOf(l) = 0 \/ (StartOf(l) < 0 /\ l.before = <<>>)
  \/ /\ l.op = "remove"
     /\ Referenced(l.fragment, l.before) = {}

\* C38: no Remove is ever recorded with an empty element list; a removeAt
\* with count 0 or with a negative start on an empty list, and a remove of
\* elements that are not in the list, leave the primitive changes,
\* hasChanges and the transaction version as they were.
C38_NoEmptyRemove ==
  [][/\ \A id \in ListIds : \A i \in 1..Len(cs'[id].prims) :
          cs'[id].prims[i].type = "remove" => cs'[id].prims[i].elems # <<>>
     /\ (txn.open /\ last'.outcome = "ok" /\ RemovesNothing(last')) =>
          /\ NothingRecorded
          /\ csHasChanges(cs', CurId(LIST)) = csHasChanges(cs, CurId(LIST))]_vars

\* ---------------------------------------------------------------- localizeDomCtrl
\* The key ends with the suffix.
EndsWith(key, suffix) ==
  /\ Len(key) >= Len(suffix)
  /\ SubSeq(key, Len(key) - Len(suffix) + 1, Len(key)) = suffix

\* C40: localizeDomCtrl resolves an id only for a key that ends with one of
\* the suffixes _label, _title, _content, _legend, _header, _button, and the
\* id is the prefix followed by the key without that suffix; for any other
\* key, also one shorter than the suffix, it resolves no id and modifies no
\* control.
C40_NamingConvention ==
  [][last'.op = "localizeDomCtrl" =>
       /\ last'.id # Null =>
            \E k \in 1..Len(Suffixes) :
              /\ EndsWith(last'.key, Suffixes[k].suffix)
              /\ last'.id =
                   last'.idPrefix \o
                     SubSeq(last'.key, 1, Len(last'.key) - Len(Suffixes[k].suffix))
       /\ (\A k \in 1..Len(Suffixes) : ~EndsWith(last'.key, Suffixes[k].suffix)) =>
            /\ last'.id = Null
            /\ store'.dom = store.dom]_vars

====
